---- MODULE Spec2Model ----
(***************************************************************************)
(* A model of docu-crawler's crawl engine (src/src/doc_crawler.py) with    *)
(* its collaborators: the robots.txt checker (src/src/utils/robots.py),    *)
(* the retry decorator (src/src/utils/retry.py), the simple rate limiter   *)
(* (src/src/utils/rate_limiter.py) and link filtering                      *)
(* (src/src/utils/url_utils.py).                                           *)
(***************************************************************************)
EXTENDS Integers, Sequences, FiniteSets, TLC

(***************************************************************************)
(* Bounds of the model.                                                    *)
(***************************************************************************)
\* the largest page cap a configuration of the model uses (0 = unlimited)
MaxPagesBound == 2
\* the wall clock stops stalling once it has passed this many seconds
MaxNow == 4000

(***************************************************************************)
(* Program constants.                                                      *)
(***************************************************************************)
HTTP_OK == 200
HTTP_UNAUTHORIZED == 401
HTTP_FORBIDDEN == 403
DEFAULT_CACHE_DURATION == 3600
DEFAULT_MAX_CONTENT_LENGTH == 10485760
MaxRetries == 3
InitialDelay == 1
BackoffFactor == 2
MaxBackoff == 60
RetryStatusCodes == {500, 502, 503, 504, 429}
DEFAULT_SINGLE_FILE_NAME == "documentation.md"
\* Python's None for an optional number
None == 0 - 1

(***************************************************************************)
(* URLs.  A URL is named by a short string; UrlParts gives what urlparse   *)
(* returns for it: netloc and path (a sequence of path pieces).            *)
(*   A = https://e.com/d/        B = https://e.com/d/b                      *)
(*   C = https://e.com/d/c       D = https://e.com/d/d                      *)
(*   X = https://o.com/d/x       P = https://e.com/d/p.png                  *)
(*   M = https://e.com/sitemap.xml                                         *)
(***************************************************************************)
URLS == {"A", "B", "C", "D", "X", "P", "M", "E", "Q", "R"}

UrlParts ==
  [u \in URLS |->
     CASE u = "A" -> [scheme |-> "https", netloc |-> "e.com", path |-> <<"/", "d", "/">>, query |-> ""]
       [] u = "B" -> [scheme |-> "https", netloc |-> "e.com", path |-> <<"/", "d", "/", "b">>, query |-> ""]
       [] u = "C" -> [scheme |-> "https", netloc |-> "e.com", path |-> <<"/", "d", "/", "c">>, query |-> ""]
       [] u = "D" -> [scheme |-> "https", netloc |-> "e.com", path |-> <<"/", "d", "/", "d">>, query |-> ""]
       [] u = "X" -> [scheme |-> "https", netloc |-> "o.com", path |-> <<"/", "d", "/", "x">>, query |-> ""]
       [] u = "P" -> [scheme |-> "https", netloc |-> "e.com", path |-> <<"/", "d", "/", "p", ".png">>, query |-> ""]
       [] u = "M" -> [scheme |-> "https", netloc |-> "e.com", path |-> <<"/", "sitemap", ".xml">>, query |-> ""]
       [] u = "E" -> [scheme |-> "https", netloc |-> "e.com", path |-> <<"/", "d", "/", "b", ".md">>, query |-> ""]
       [] u = "Q" -> [scheme |-> "https", netloc |-> "e.com", path |-> <<"/", "d", "/", "c">>, query |-> "v=1"]
       [] u = "R" -> [scheme |-> "https", netloc |-> "e.com", path |-> <<"/", "d", "/", "c">>, query |-> "v=2"]]

urlparse(u) == UrlParts[u]

IsPrefix(s, t) == Len(s) <= Len(t) /\ SubSeq(t, 1, Len(s)) = s

ExtensionsToAvoid == {".jpg", ".jpeg", ".png", ".gif", ".pdf", ".zip", ".js", ".css"}

\* a validity test that looks at the host and at the path prefix only
is_valid_url_any_extension(url, domain, path) ==
  /\ urlparse(url).netloc = domain
  /\ IsPrefix(path, urlparse(url).path)

\* url_utils.is_valid_url
is_valid_url(url, base_domain, base_path) ==
  LET parsed_url == urlparse(url) IN
  IF parsed_url.netloc # base_domain THEN FALSE
  ELSE IF ~IsPrefix(base_path, parsed_url.path) THEN FALSE
  ELSE IF parsed_url.path[Len(parsed_url.path)] \in ExtensionsToAvoid THEN FALSE
  ELSE TRUE

\* DocuCrawler.__init__: "start_url.lower().endswith('.xml') or 'sitemap' in ..."
IsSitemapUrl(u) ==
  LET p == urlparse(u).path IN
  p[Len(p)] = ".xml" \/ \E i \in 1..Len(p) : p[i] = "sitemap"

\* RobotsTxtChecker._get_domain
_get_domain(url) == <<urlparse(url).scheme, urlparse(url).netloc>>

Domains == {_get_domain(u) : u \in URLS}

(***************************************************************************)
(* urllib.robotparser.RobotFileParser as robots.py uses it.  A parser is a *)
(* record; `disallow' is the set of URLs that a Disallow rule applying to  *)
(* the crawler's user agent matches, `delay' the Crawl-delay of that entry.*)
(***************************************************************************)
RobotsFiles ==
  { [disallow |-> {}, delay |-> None],
    [disallow |-> {}, delay |-> 0],
    [disallow |-> {"B"}, delay |-> 2],
    [disallow |-> URLS, delay |-> None] }

\* RobotFileParser() followed by set_url(): nothing read yet
RobotFileParser ==
  [disallow_all |-> FALSE, allow_all |-> FALSE, last_checked |-> FALSE,
   disallow |-> {}, delay |-> None]

\* RobotFileParser.parse(lines): records the rules and marks the file as read
parser_parse(parser, file) ==
  [parser EXCEPT !.last_checked = TRUE, !.disallow = file.disallow, !.delay = file.delay]

\* RobotFileParser.can_fetch(useragent, url)
parser_can_fetch(parser, url) ==
  IF parser.disallow_all THEN FALSE
  ELSE IF parser.allow_all THEN TRUE
  ELSE IF ~parser.last_checked THEN FALSE
  ELSE url \notin parser.disallow

\* RobotFileParser.crawl_delay(useragent)
parser_crawl_delay(parser) ==
  IF ~parser.last_checked THEN None ELSE parser.delay

\* What the server answers to GET <domain>/robots.txt: the request raises, or
\* a status comes back (with the file's rules when the status is 200).
RobotsReplies ==
  { [raises |-> TRUE, status |-> 0, file |-> [disallow |-> {}, delay |-> None]] }
  \cup { [raises |-> FALSE, status |-> st, file |-> [disallow |-> {}, delay |-> None]] :
           st \in {HTTP_UNAUTHORIZED, HTTP_FORBIDDEN, 404} }
  \cup { [raises |-> FALSE, status |-> HTTP_OK, file |-> f] : f \in RobotsFiles }

\* The parser robots.py builds from one robots.txt request (lines 56-96)
LoadParser(reply) ==
  IF reply.raises THEN RobotFileParser
  ELSE IF reply.status \in {HTTP_UNAUTHORIZED, HTTP_FORBIDDEN} THEN RobotFileParser
  ELSE IF reply.status = HTTP_OK THEN parser_parse(RobotFileParser, reply.file)
  ELSE RobotFileParser

\* RobotsTxtChecker._get_parser: the cached parser while the entry is younger
\* than cache_duration, otherwise a new request whose result replaces the entry.
\* rc is the checker's state [parsers, cache_time], t the time of the call and
\* took the time the request takes; the result carries the new state, the
\* parser returned, whether a request was made and the time at the return.
\* a cache whose entries live one second longer
CacheFreshInclusive(rc, domain, t) ==
  /\ domain \in DOMAIN rc.parsers
  /\ t - (IF domain \in DOMAIN rc.cache_time THEN rc.cache_time[domain] ELSE 0)
       <= DEFAULT_CACHE_DURATION

\* robots.py lines 50-53
CacheFresh(rc, domain, t) ==
  /\ domain \in DOMAIN rc.parsers
  /\ t - (IF domain \in DOMAIN rc.cache_time THEN rc.cache_time[domain] ELSE 0)
       < DEFAULT_CACHE_DURATION

_get_parser(rc, url, t, reply, took) ==
  LET domain == _get_domain(url) IN
  IF CacheFresh(rc, domain, t)
  THEN [rc |-> rc, parser |-> rc.parsers[domain], fetched |-> FALSE, now |-> t]
  ELSE LET parser == LoadParser(reply) IN
       [rc |-> [parsers |-> [d \in DOMAIN rc.parsers \cup {domain} |->
                               IF d = domain THEN parser ELSE rc.parsers[d]],
                cache_time |-> [d \in DOMAIN rc.cache_time \cup {domain} |->
                               IF d = domain THEN t + took ELSE rc.cache_time[d]]],
        parser |-> parser, fetched |-> TRUE, now |-> t + took]

\* RobotsTxtChecker.can_fetch
can_fetch(rc, url, t, reply, took) ==
  LET g == _get_parser(rc, url, t, reply, took) IN
  [rc |-> g.rc, result |-> parser_can_fetch(g.parser, url), fetched |-> g.fetched,
   now |-> g.now]

\* RobotsTxtChecker.get_crawl_delay
get_crawl_delay(rc, url, t, reply, took) ==
  LET g == _get_parser(rc, url, t, reply, took) IN
  [rc |-> g.rc, result |-> parser_crawl_delay(g.parser), fetched |-> g.fetched,
   now |-> g.now]

(***************************************************************************)
(* One HTTP attempt of _fetch_url_with_retry (the decorated function) and  *)
(* the retry decorator around it.                                          *)
(***************************************************************************)
\* A header value that int() and float() reject ("abc", an HTTP date)
NotANumber == 0 - 2

\* A server reply to one GET of a page.  fail: "none", "connect" (the request
\* raises) or "read" (the body stream raises after the chunks of `body' were
\* delivered); declared is the Content-Length header (a number, NotANumber or
\* None when absent); body the sizes of the chunks iter_content yields;
\* retry_after the Retry-After header (a number, NotANumber or None).
Reply(fail, status, declared, body, retry_after, html) ==
  [fail |-> fail, status |-> status, declared |-> declared, body |-> body,
   retry_after |-> retry_after, html |-> html]

Min(a, b) == IF a <= b THEN a ELSE b
Max(a, b) == IF a >= b THEN a ELSE b

\* int(header) / float(header) succeeds
IsNumeric(header) == header # None /\ header # NotANumber

\* a size guard that also rejects a body of exactly the maximum
ExceedsLimitInclusive(size, max_content_length) == size >= max_content_length

\* lines 383 and 393: "> self.max_content_length"
ExceedsLimit(size, max_content_length) == size > max_content_length

\* What one attempt gives its caller: a response or an exception; closed tells
\* whether response.close() was called
Raised(exc, closed) ==
  [kind |-> "raise", exc |-> exc, status |-> 0, html |-> FALSE, size |-> 0,
   retry_after |-> None, closed |-> closed]

\* lines 388-403: the chunk loop; content is len(content) so far
RECURSIVE ReadChunks(_, _, _, _)
ReadChunks(reply, chunks, content, max_content_length) ==
  IF chunks = <<>>
  THEN IF reply.fail = "read"
       THEN Raised("RequestException", TRUE)
       ELSE [kind |-> "response", exc |-> "", status |-> reply.status,
             html |-> reply.html, size |-> content,
             retry_after |-> reply.retry_after, closed |-> FALSE]
  ELSE IF ExceedsLimit(content + Head(chunks), max_content_length)
       THEN Raised("ContentTooLargeError", TRUE)
       ELSE ReadChunks(reply, Tail(chunks), content + Head(chunks), max_content_length)

\* The body of _fetch_url_with_retry: a response, or the exception it raises
FetchOnce(reply, max_content_length) ==
  IF reply.fail = "connect"
  THEN Raised("RequestException", FALSE)
  ELSE IF IsNumeric(reply.declared) /\ ExceedsLimit(reply.declared, max_content_length)
  THEN Raised("ContentTooLargeError", TRUE)
  ELSE ReadChunks(reply, reply.body, 0, max_content_length)

\* The reply the server gives to the i-th request of a script (the last one repeats)
ReplyAt(script, i) == script[Min(i, Len(script))]

\* a retry policy that does not retry 429 Too Many Requests
IsRetryableNo429(status) == status \in {500, 502, 503, 504}

\* retry.py line 83: "result.status_code in retry_status_codes"
IsRetryable(status) == status \in RetryStatusCodes

\* a backoff that grows by one second per retry
NextDelayLinear(delay) == Min(delay + 1, MaxBackoff)

\* retry.py lines 97 and 107: "delay = min(delay * backoff_factor, 60.0)"
NextDelay(delay) == Min(delay * BackoffFactor, MaxBackoff)

\* retry.py lines 79-109, one pass of the for loop after func returned or raised
\* `result': retry (after sleeping `sleep'), return the result or re-raise
RetryStep(result, attempt, delay) ==
  IF result.kind = "response"
  THEN IF IsRetryable(result.status) /\ attempt < MaxRetries
       THEN LET d == IF IsNumeric(result.retry_after) THEN result.retry_after ELSE delay IN
            [do |-> "retry", sleep |-> d, delay |-> NextDelay(d)]
       ELSE [do |-> "return", sleep |-> 0, delay |-> delay]
  ELSE IF attempt < MaxRetries
       THEN [do |-> "retry", sleep |-> delay, delay |-> NextDelay(delay)]
       ELSE [do |-> "raise", sleep |-> 0, delay |-> delay]

\* retry_on_http_error.wrapper: attempt counts from 0, delay is the current
\* backoff delay, slept the delays slept so far.
RECURSIVE RetryLoop(_, _, _, _, _)
RetryLoop(script, max_content_length, attempt, delay, slept) ==
  LET result == FetchOnce(ReplyAt(script, attempt + 1), max_content_length)
      step == RetryStep(result, attempt, delay) IN
  IF step.do = "retry"
  THEN RetryLoop(script, max_content_length, attempt + 1, step.delay,
                 Append(slept, step.sleep))
  ELSE [result |-> result, requests |-> attempt + 1, slept |-> slept]

\* DocuCrawler._fetch_url_with_retry as crawl() calls it
_fetch_url_with_retry(script, max_content_length) ==
  RetryLoop(script, max_content_length, 0, InitialDelay, <<>>)

(***************************************************************************)
(* The environment of a crawl: the site's pages and what the servers       *)
(* answer.                                                                 *)
(***************************************************************************)
\* The site of the breadth-first example: A -> [B, C], B -> [D]
ExampleSite ==
  [u \in URLS |-> CASE u = "A" -> <<"B", "C">>
                    [] u = "B" -> <<"D">>
                    [] OTHER   -> <<>>]

\* The absolute, fragment-free link targets of each page, in document order
Sites ==
  { ExampleSite,
    [u \in URLS |-> CASE u = "A" -> <<"B", "B", "A", "X", "P">>
                      [] u = "B" -> <<"A", "C">>
                      [] u = "C" -> <<"B", "D">>
                      [] u = "D" -> <<"M", "A">>
                      [] OTHER   -> <<"A">>] }

\* What SitemapParser.fetch_urls may return for the sitemap M: list(set(...))
SitemapResults == { <<>>, <<"B", "C">>, <<"M", "X">> }

\* What the page server answers to the successive requests of one fetch
R200 == Reply("none", HTTP_OK, None, <<1>>, None, TRUE)
ServerScripts ==
  { <<R200>>,
    <<Reply("none", HTTP_OK, None, <<1>>, None, FALSE)>>,
    <<Reply("none", 404, None, <<1>>, None, TRUE)>>,
    <<Reply("none", 503, None, <<1>>, None, TRUE), R200>>,
    <<Reply("none", 503, None, <<1>>, None, TRUE)>>,
    <<Reply("connect", 0, None, <<>>, None, FALSE)>>,
    <<Reply("none", HTTP_OK, None, <<1, DEFAULT_MAX_CONTENT_LENGTH>>, None, TRUE)>> }

\* Constructor arguments (after validation, lines 63-74)
Config(start_url, max_pages, single_file, on_page_crawled, on_error) ==
  [start_url |-> start_url, max_pages |-> max_pages, delay |-> 1,
   single_file |-> single_file, on_page_crawled |-> on_page_crawled,
   on_error |-> on_error]

\* the same arguments with another delay
WithDelay(config, delay) == [config EXCEPT !.delay = delay]

Configs ==
  { Config("A", 0, FALSE, TRUE, TRUE),
    Config("A", 1, TRUE, FALSE, TRUE),
    WithDelay(Config("A", MaxPagesBound, TRUE, TRUE, FALSE), 3),
    Config("M", 1, FALSE, FALSE, TRUE) }

(***************************************************************************)
(* State.                                                                  *)
(***************************************************************************)
VARIABLES
  cfg,               \* the constructor's arguments
  site,              \* the pages of the site being crawled
  visited_urls,      \* self.visited_urls
  urls_to_visit,     \* self.urls_to_visit (the deque, head first)
  urls_in_queue,     \* self.urls_in_queue
  stats,             \* self.stats
  robots,            \* self.robots_checker: [parsers, cache_time]
  robots_replies,    \* history: per domain, the answer to the last robots.txt request
  last_request_time, \* self.rate_limiter.last_request_time
  now,               \* time.time()
  pc,                \* where construction / crawl() stands
  current_url,       \* crawl(): current_url
  delay_to_use,      \* crawl(): delay_to_use
  response,          \* crawl(): what _fetch_url_with_retry returned or raised
  allowed,           \* the answer of can_fetch in this iteration
  iter,              \* history: what this iteration did (failures counted,
                     \* callbacks called, whether a callback raised)
  fetchLog,          \* history: the URLs passed to _fetch_url_with_retry
  appendLog,         \* history: the URLs appended to urls_to_visit
  dequeueLog,        \* history: the URLs popped from urls_to_visit
  finalStats,        \* history: number of _log_stats(final=True) emissions
  cause,             \* history: why the loop was left
  served,            \* one fetch on its own: what the server answers to its requests
  limit,             \* one fetch on its own: self.max_content_length
  wrapper,           \* one fetch on its own: the locals of retry_on_http_error's
                     \* wrapper (attempt, delay) with the sleeps and results so far
  rate_limiter,      \* a SimpleRateLimiter shared by threads: delay and the holder
                     \* of self.lock (its last_request_time is the variable above)
  callers,           \* per thread, where its call of wait_if_needed stands
  returns,           \* history: per key, the thread and the time of the last
                     \* call of wait_if_needed that returned
  robots_gets,       \* a RobotsTxtChecker on its own, history: the robots.txt
                     \* requests made (domain and time)
  robots_call,       \* a RobotsTxtChecker on its own, history: the last call made
  sitemap_docs,      \* SitemapParser.fetch_urls on its own: what each sitemap URL serves
  sitemap_stack,     \* the frames of fetch_urls / _parse_index in progress, the
                     \* caller's first: url, max_depth, urls and the <loc>s left
  sitemap_visited,   \* the visited set shared by the recursive calls
  sitemap_gets,      \* history: the sitemap URLs requested
  sitemap_result,    \* where the top-level call stands and what it returned
  ctor_args,         \* DocuCrawler(...) on its own: the arguments of the call
  ctor,              \* where the call stands, what it raised and, history, the
                     \* network and storage operations it performed
  html_processor,    \* an HtmlProcessor on its own: its config
  html_call,         \* history: the last call of extract_text / extract_links,
                     \* its arguments and what it returned
  storage,           \* a LocalStorageBackend on its own: the files written, as
                     \* paths relative to the output directory
  storage_call       \* history: the last call of save_file / append_file

frontier == <<visited_urls, urls_to_visit, urls_in_queue>>
politeness == <<robots, last_request_time, robots_replies>>
locals == <<current_url, delay_to_use, response, allowed>>
history == <<fetchLog, appendLog, dequeueLog, finalStats, cause>>
retry_unit == <<served, limit, wrapper>>
rate_unit == <<rate_limiter, callers, returns>>
robots_unit == <<robots_gets, robots_call>>
sitemap_unit == <<sitemap_docs, sitemap_stack, sitemap_visited, sitemap_gets,
                  sitemap_result>>
construct_unit == <<ctor_args, ctor>>
html_unit == <<html_processor, html_call>>
storage_unit == <<storage, storage_call>>
other_units == <<construct_unit, html_unit, storage_unit>>
units == <<retry_unit, rate_unit, robots_unit, sitemap_unit, other_units>>
vars == <<units, cfg, site, frontier, stats, politeness, now, pc, locals, iter, history>>

base_domain == urlparse(cfg.start_url).netloc
base_path == urlparse(cfg.start_url).path

NoResponse == [kind |-> "none", exc |-> "", status |-> 0, html |-> FALSE,
               size |-> 0, retry_after |-> None, closed |-> FALSE]

\* nothing observed yet in an iteration of the loop
NewIteration ==
  [failed |-> 0, error_calls |-> <<>>, page_calls |-> <<>>, raised |-> FALSE,
   enqueued |-> FALSE, storage |-> <<>>]

\* an empty dict
EmptyDict == [k \in {} |-> 0]

\* d[key] = value
Put(d, key, value) == [k \in DOMAIN d \cup {key} |-> IF k = key THEN value ELSE d[k]]

\* CrawlerStats(): all counters zero
CrawlerStats == [pages_processed |-> 0, pages_failed |-> 0, bytes_downloaded |-> 0]

\* no fetch is being looked at on its own
NoWrapper == [pc |-> "idle", attempt |-> 0, delay |-> InitialDelay, slept |-> <<>>,
              results |-> <<>>]

RetryIdle ==
  /\ served = <<>>
  /\ limit = DEFAULT_MAX_CONTENT_LENGTH
  /\ wrapper = NoWrapper

\* the threads that may share a SimpleRateLimiter
Threads == {"t1", "t2"}
NoThread == "-"

\* a thread outside wait_if_needed
NotCalling == [pc |-> "idle", domain |-> "", key |-> "", started |-> 0,
               wait_time |-> 0, calls |-> 0]

\* SimpleRateLimiter(delay), lines 72-74
SimpleRateLimiter(delay) == [delay |-> delay, lock |-> NoThread]

RateIdle ==
  /\ rate_limiter = SimpleRateLimiter(cfg.delay)
  /\ callers = [t \in Threads |-> NotCalling]
  /\ returns = EmptyDict

\* no call of the robots checker on its own
NoCall == [op |-> "", url |-> "", at |-> 0]

RobotsIdle ==
  /\ robots_gets = <<>>
  /\ robots_call = NoCall

SitemapIdle ==
  /\ sitemap_docs = EmptyDict
  /\ sitemap_stack = <<>>
  /\ sitemap_visited = {}
  /\ sitemap_gets = <<>>
  /\ sitemap_result = [pc |-> "idle", urls |-> {}]

\* Python values of the types the constructor's checks tell apart: None, a
\* number or a string (a string is the sequence of its pieces)
PyNone == [type |-> "NoneType", text |-> <<>>, number |-> 0]
PyInt(n) == [type |-> "int", text |-> <<>>, number |-> n]
PyStr(text) == [type |-> "str", text |-> text, number |-> 0]

\* no constructor call is being looked at on its own
NoConstruction == [pc |-> "idle", exc |-> "", effects |-> <<>>]

ConstructIdle ==
  /\ ctor_args = [start_url |-> PyNone, delay |-> 0, timeout |-> 0, max_pages |-> 0,
                  output_dir |-> PyNone, single_file |-> FALSE]
  /\ ctor = NoConstruction

\* HtmlProcessorConfig, config.py lines 14-26: the fields the conversion of
\* the model's documents reads, the others keep their defaults; base_url is
\* <<>> for None and <<url>> for a URL
HtmlProcessorConfig(base_url, skip_internal_links, ignore_links) ==
  [base_url |-> base_url, skip_internal_links |-> skip_internal_links,
   ignore_links |-> ignore_links]

\* no call on a processor is being looked at on its own
NoConversion == [op |-> "", calls |-> 0]

\* html_processor.py line 55: HtmlProcessor() has the default configuration
HtmlIdle ==
  /\ html_processor = [config |-> HtmlProcessorConfig(<<>>, FALSE, FALSE)]
  /\ html_call = NoConversion

\* no storage backend is being looked at on its own
StorageIdle ==
  /\ storage = {}
  /\ storage_call = [op |-> "", calls |-> 0]

OthersIdle ==
  /\ ConstructIdle
  /\ HtmlIdle
  /\ StorageIdle

\* DocuCrawler.__init__, lines 76-114
NewCrawler(configs, sites) ==
  /\ cfg \in configs
  /\ site \in sites
  /\ visited_urls = {}
  /\ urls_to_visit = <<cfg.start_url>>
  /\ urls_in_queue = {cfg.start_url}
  /\ stats = CrawlerStats
  /\ robots = [parsers |-> EmptyDict, cache_time |-> EmptyDict]
  /\ robots_replies = EmptyDict
  /\ last_request_time = EmptyDict
  /\ now = 0
  /\ pc = "init"
  /\ current_url = cfg.start_url
  /\ delay_to_use = cfg.delay
  /\ response = NoResponse
  /\ allowed = FALSE
  /\ iter = NewIteration
  /\ fetchLog = <<>>
  /\ appendLog = <<cfg.start_url>>
  /\ dequeueLog = <<>>
  /\ finalStats = 0
  /\ cause = "none"

DocuCrawler == NewCrawler(Configs, Sites)

Init ==
  /\ DocuCrawler
  /\ RetryIdle
  /\ RateIdle
  /\ RobotsIdle
  /\ OthersIdle
  /\ SitemapIdle

(***************************************************************************)
(* Small steps of crawl() that the actions below share.                    *)
(***************************************************************************)
\* a frontier that puts new URLs at the head (appendleft for append)
EnqueueAtHead(queue, url) == <<url>> \o queue

\* line 298: deque.append
Enqueue(queue, url) == Append(queue, url)

\* a dequeue that leaves the URL in the membership set
DiscardNothing(in_queue, url) == in_queue

\* line 272: urls_in_queue.discard(current_url)
DiscardDequeued(in_queue, url) == in_queue \ {url}

\* a loop that does not record the URL it is about to fetch
MarkNothing(visited, url) == visited

\* line 290: visited_urls.add(current_url)
MarkAsVisited(visited, url) == visited \cup {url}

\* a loop that ignores the answer of can_fetch
AfterRobotsIgnored(can) == "rate"

\* lines 278-280: a URL robots.txt disallows is skipped
AfterRobots(can) == IF can THEN "rate" ELSE "loop"

\* a try block without the "except KeyboardInterrupt" clause
OuterHandlerNoInterrupt(exc) ==
  IF exc = "KeyboardInterrupt" THEN "raised" ELSE "handler_exc"

\* lines 326-331: the handler that catches an exception leaving the try block
\* of line 265
OuterHandler(exc) ==
  IF exc = "KeyboardInterrupt" THEN "handler_int" ELSE "handler_exc"

\* a page cap tested with > for >=
PageCapExceeded(max_pages, pages_processed) ==
  max_pages > 0 /\ pages_processed > max_pages

\* line 267: the page cap
PageCapReached(max_pages, pages_processed) ==
  max_pages > 0 /\ pages_processed >= max_pages

\* a limiter that looks at the most recent request of any key
WaitTimeAnyKey(lrt, key, t, delay) ==
  IF \E k \in DOMAIN lrt : t - lrt[k] < delay
  THEN delay - (t - lrt[CHOOSE k \in DOMAIN lrt : \A j \in DOMAIN lrt : lrt[j] <= lrt[k]])
  ELSE 0

\* rate_limiter.py lines 87-92: the time wait_if_needed sleeps
WaitTime(lrt, key, t, delay) ==
  IF key \in DOMAIN lrt /\ t - lrt[key] < delay THEN delay - (t - lrt[key]) ELSE 0

\* SimpleRateLimiter.wait_if_needed: the new last_request_time and the clock
\* after the wait
wait_if_needed(lrt, key, t, delay) ==
  LET wait_time == WaitTime(lrt, key, t, delay)
      t2 == t + wait_time IN
  [last_request_time |-> [k \in DOMAIN lrt \cup {key} |-> IF k = key THEN t2 ELSE lrt[k]],
   now |-> t2, slept |-> wait_time]

\* a crawl-delay that replaces the configured delay
EffectiveDelayRobotsOnly(delay, crawl_delay) ==
  IF crawl_delay # None /\ crawl_delay # 0 THEN crawl_delay ELSE delay

\* line 285: delay_to_use
EffectiveDelay(delay, crawl_delay) ==
  IF crawl_delay # None /\ crawl_delay # 0 THEN Max(delay, crawl_delay) ELSE delay

Range(q) == {q[i] : i \in 1..Len(q)}

RECURSIVE SumSeq(_)
SumSeq(q) == IF q = <<>> THEN 0 ELSE Head(q) + SumSeq(Tail(q))

\* a per-page try block that catches RequestException only: any other
\* exception leaves the loop
HandleFetchResultNarrow(result, st) ==
  IF result.kind = "response" /\ result.status = HTTP_OK
  THEN [stats |-> st, pc |-> "store"]
  ELSE IF result.kind = "raise" /\ result.exc # "RequestException"
  THEN [stats |-> st, pc |-> "handler_exc"]
  ELSE [stats |-> [st EXCEPT !.pages_failed = @ + 1], pc |-> "err_cb"]

\* lines 293 and 303-320: what crawl() does with the outcome of the fetch.
\* A 200 response goes to process_page; any other response, a
\* RequestException and any other Exception count one failure and go to the
\* error callback.
HandleFetchResult(result, st) ==
  IF result.kind = "response" /\ result.status = HTTP_OK
  THEN [stats |-> st, pc |-> "store"]
  ELSE [stats |-> [st EXCEPT !.pages_failed = @ + 1], pc |-> "err_cb"]

\* url_utils.url_to_filepath: the path of a page's own file, relative to the
\* output directory
url_to_filepath(url, bp) ==
  LET path == urlparse(url).path
      stripped == IF IsPrefix(bp, path) THEN SubSeq(path, Len(bp) + 1, Len(path))
                  ELSE path
      indexed == IF stripped # <<>> /\ stripped[Len(stripped)] = "/"
                 THEN Append(stripped, "index") ELSE stripped
      relative == IF indexed # <<>> /\ Head(indexed) = "/" THEN Tail(indexed)
                  ELSE indexed
      named == IF relative = <<>> THEN <<"index">> ELSE relative
  IN IF named[Len(named)] = ".md" THEN named ELSE Append(named, ".md")

\* one call of the storage client: the method, the path, the "Source: <url>"
\* marker that precedes the page's Markdown ("" when there is none), the page
\* whose Markdown is written and whether the call returned (or raised)
StorageOp(op, path, source, page, ok) ==
  [op |-> op, path |-> path, source |-> source, page |-> page, ok |-> ok]

\* process_page, lines 215-233: the storage calls made for an HTML page
StoreOps(single_file, url, bp, append_ok, save_ok) ==
  LET save == StorageOp("save_file", url_to_filepath(url, bp), "", url, save_ok) IN
  IF single_file
  THEN <<StorageOp("append_file", <<DEFAULT_SINGLE_FILE_NAME>>, url, url, append_ok)>>
       \o (IF append_ok THEN <<>> ELSE <<save>>)
  ELSE <<save>>

\* a single-file mode without the fallback of lines 225-229
StoreOutcomeNoFallback(single_file, html, append_ok, save_ok) ==
  IF ~html THEN "nonhtml"
  ELSE IF single_file
       THEN IF append_ok THEN "stored" ELSE "failed"
       ELSE IF save_ok THEN "stored" ELSE "failed"

\* process_page, lines 202-235 and 255-258: "nonhtml" (return None), "stored"
\* or "failed" (the exception handler)
StoreOutcome(single_file, html, append_ok, save_ok) ==
  IF ~html THEN "nonhtml"
  ELSE IF single_file
       THEN IF append_ok THEN "stored"
            ELSE IF save_ok THEN "stored" ELSE "failed"
       ELSE IF save_ok THEN "stored" ELSE "failed"

\* a page callback called without its own try block: its exception reaches the
\* handler of line 255
AfterPageCallbackUncaught(raised, st) ==
  IF raised THEN [stats |-> [st EXCEPT !.pages_failed = @ + 1], pc |-> "sleep"]
  ELSE [stats |-> st, pc |-> "links"]

\* process_page, lines 239-243: the page callback's exception is caught
AfterPageCallback(raised, st) == [stats |-> st, pc |-> "links"]

\* _call_error_callback, lines 185-189: the error callback's exception is caught
AfterErrorCallback(raised) == "sleep"

\* HtmlProcessor.extract_links with the predicate of line 248, on the targets
\* of the page's anchors
extract_links(targets, visited) ==
  SelectSeq(targets, LAMBDA u : is_valid_url(u, base_domain, base_path) /\ u \notin visited)

(***************************************************************************)
(* Construction: sitemap seeding (lines 116-140).                          *)
(***************************************************************************)
\* a pass that appends every URL, whatever the two sets hold
RECURSIVE AddAllUnchecked(_, _)
AddAllUnchecked(fr, urls) ==
  IF urls = <<>> THEN fr
  ELSE AddAllUnchecked([fr EXCEPT !.queue = Enqueue(fr.queue, Head(urls)),
                                  !.in_queue = fr.in_queue \cup {Head(urls)},
                                  !.appended = Append(fr.appended, Head(urls))],
                       Tail(urls))

\* a pass that tests visited_urls only
RECURSIVE AddAllUnlessVisited(_, _)
AddAllUnlessVisited(fr, urls) ==
  IF urls = <<>> THEN fr
  ELSE IF Head(urls) \notin fr.visited
       THEN AddAllUnlessVisited([fr EXCEPT !.queue = Enqueue(fr.queue, Head(urls)),
                                           !.in_queue = fr.in_queue \cup {Head(urls)},
                                           !.appended = Append(fr.appended, Head(urls))],
                                Tail(urls))
       ELSE AddAllUnlessVisited(fr, Tail(urls))

\* one pass of "if url not in urls_in_queue and url not in visited_urls: append, add"
RECURSIVE AddAll(_, _)
AddAll(fr, urls) ==
  IF urls = <<>> THEN fr
  ELSE LET url == Head(urls) IN
       IF url \notin fr.in_queue /\ url \notin fr.visited
       THEN AddAll([fr EXCEPT !.queue = Enqueue(fr.queue, url),
                              !.in_queue = fr.in_queue \cup {url},
                              !.appended = Append(fr.appended, url)],
                   Tail(urls))
       ELSE AddAll(fr, Tail(urls))

Frontier == [queue |-> urls_to_visit, in_queue |-> urls_in_queue,
             visited |-> visited_urls, appended |-> appendLog]

SeedFromSitemap ==
  /\ pc = "init"
  /\ IsSitemapUrl(cfg.start_url)
  /\ \E sitemap_urls \in SitemapResults :
       LET fr == AddAll(Frontier, sitemap_urls) IN
       /\ urls_to_visit' = fr.queue
       /\ urls_in_queue' = fr.in_queue
       /\ appendLog' = fr.appended
  /\ pc' = "ready"
  /\ UNCHANGED <<units, cfg, site, visited_urls, stats, politeness, now, locals, iter,
                 fetchLog, dequeueLog, finalStats, cause>>

NoSitemap ==
  /\ pc = "init"
  /\ ~IsSitemapUrl(cfg.start_url)
  /\ pc' = "ready"
  /\ UNCHANGED <<units, cfg, site, frontier, stats, politeness, now, locals, iter, history>>

(***************************************************************************)
(* crawl()                                                                 *)
(***************************************************************************)
\* The positions inside the while loop (lines 266-322)
LoopPcs == {"loop", "robots", "rate", "mark", "fetch", "store", "page_cb",
            "links", "err_cb", "sleep"}

\* lines 262-265
StartCrawl ==
  /\ pc = "ready"
  /\ pc' = "loop"
  /\ UNCHANGED <<units, cfg, site, frontier, stats, politeness, now, locals, iter, history>>

\* line 266, the loop condition fails: fall through to line 324
FrontierExhausted ==
  /\ pc = "loop"
  /\ urls_to_visit = <<>>
  /\ pc' = "final_stats"
  /\ cause' = "exhausted"
  /\ UNCHANGED <<units, cfg, site, frontier, stats, politeness, now, locals, iter,
                 fetchLog, appendLog, dequeueLog, finalStats>>

\* lines 267-269
CapReached ==
  /\ pc = "loop"
  /\ urls_to_visit # <<>>
  /\ PageCapReached(cfg.max_pages, stats.pages_processed)
  /\ pc' = "final_stats"
  /\ cause' = "cap"
  /\ UNCHANGED <<units, cfg, site, frontier, stats, politeness, now, locals, iter,
                 fetchLog, appendLog, dequeueLog, finalStats>>

\* lines 271-275
Dequeue ==
  /\ pc = "loop"
  /\ urls_to_visit # <<>>
  /\ ~PageCapReached(cfg.max_pages, stats.pages_processed)
  /\ current_url' = Head(urls_to_visit)
  /\ urls_to_visit' = Tail(urls_to_visit)
  /\ urls_in_queue' = DiscardDequeued(urls_in_queue, Head(urls_to_visit))
  /\ dequeueLog' = Append(dequeueLog, Head(urls_to_visit))
  /\ pc' = IF Head(urls_to_visit) \in visited_urls THEN "loop" ELSE "robots"
  /\ response' = NoResponse
  /\ allowed' = FALSE
  /\ iter' = NewIteration
  /\ UNCHANGED <<units, cfg, site, visited_urls, stats, politeness, now, delay_to_use,
                 fetchLog, appendLog, finalStats, cause>>


\* lines 277-280
CheckRobots ==
  /\ pc = "robots"
  /\ \E reply \in RobotsReplies :
       LET r == can_fetch(robots, current_url, now, reply, 0) IN
       /\ robots' = r.rc
       /\ allowed' = r.result
       /\ pc' = AfterRobots(r.result)
       /\ robots_replies' = IF r.fetched
                             THEN Put(robots_replies, _get_domain(current_url), reply)
                             ELSE robots_replies
  /\ UNCHANGED <<units, cfg, site, frontier, stats, last_request_time, now,
                 current_url, delay_to_use, response, iter, history>>

\* lines 282-287
RateLimit ==
  /\ pc = "rate"
  /\ \E reply \in RobotsReplies :
       LET w == wait_if_needed(last_request_time, base_domain, now, cfg.delay)
           cd == get_crawl_delay(robots, current_url, w.now, reply, 0) IN
       /\ last_request_time' = w.last_request_time
       /\ now' = w.now
       /\ robots' = cd.rc
       /\ robots_replies' = IF cd.fetched
                             THEN Put(robots_replies, _get_domain(current_url), reply)
                             ELSE robots_replies
       /\ delay_to_use' = EffectiveDelay(cfg.delay, cd.result)
  /\ pc' = "mark"
  /\ UNCHANGED <<units, cfg, site, frontier, stats, current_url, response, allowed, iter,
                 history>>

\* line 290
MarkVisited ==
  /\ pc = "mark"
  /\ visited_urls' = MarkAsVisited(visited_urls, current_url)
  /\ pc' = "fetch"
  /\ UNCHANGED <<units, cfg, site, urls_to_visit, urls_in_queue, stats, politeness, now,
                 locals, iter, history>>

\* lines 291-293 and 303-320 up to the error callback
Fetch ==
  /\ pc = "fetch"
  /\ \E script \in ServerScripts, stall \in {0, DEFAULT_CACHE_DURATION} :
       LET r == _fetch_url_with_retry(script, DEFAULT_MAX_CONTENT_LENGTH)
           h == HandleFetchResult(r.result, stats) IN
       /\ stall = 0 \/ now + stall <= MaxNow
       /\ response' = r.result
       /\ now' = now + SumSeq(r.slept) + stall
       /\ stats' = h.stats
       /\ iter' = [iter EXCEPT !.failed = @ + (h.stats.pages_failed - stats.pages_failed)]
       /\ pc' = h.pc
       /\ cause' = IF h.pc \in LoopPcs THEN cause ELSE "page_error"
  /\ fetchLog' = Append(fetchLog, current_url)
  /\ UNCHANGED <<units, cfg, site, frontier, politeness, current_url, delay_to_use, allowed,
                 appendLog, dequeueLog, finalStats>>

\* process_page, lines 202-236 (and 255-258 when storing raises)
StorePage ==
  /\ pc = "store"
  /\ \E append_ok \in BOOLEAN, save_ok \in BOOLEAN :
       LET o == StoreOutcome(cfg.single_file, response.html, append_ok, save_ok)
           st == [stats EXCEPT !.bytes_downloaded = @ + response.size] IN
       /\ stats' = CASE o = "stored" -> [st EXCEPT !.pages_processed = @ + 1]
                     [] o = "failed" -> [st EXCEPT !.pages_failed = @ + 1]
                     [] OTHER -> st
       /\ iter' = [iter EXCEPT
                     !.failed = @ + (IF o = "failed" THEN 1 ELSE 0),
                     !.storage = IF response.html
                                 THEN StoreOps(cfg.single_file, current_url, base_path,
                                               append_ok, save_ok)
                                 ELSE <<>>]
       /\ pc' = IF o = "stored" THEN "page_cb" ELSE "sleep"
  /\ UNCHANGED <<units, cfg, site, frontier, politeness, now, locals, history>>

\* process_page, lines 239-243
PageCallback ==
  /\ pc = "page_cb"
  /\ IF cfg.on_page_crawled
     THEN \E raised \in BOOLEAN :
            LET a == AfterPageCallback(raised, stats) IN
            /\ iter' = [iter EXCEPT
                          !.page_calls = Append(@, <<current_url, stats.pages_processed>>),
                          !.raised = @ \/ raised,
                          !.failed = @ + (a.stats.pages_failed - stats.pages_failed)]
            /\ stats' = a.stats
            /\ pc' = a.pc
     ELSE /\ pc' = "links"
          /\ UNCHANGED <<iter, stats>>
  /\ UNCHANGED <<units, cfg, site, frontier, politeness, now, locals, history>>

\* process_page, lines 245-258, and crawl(), lines 295-302
ExtractLinks ==
  /\ pc = "links"
  /\ \E bad_href \in BOOLEAN :
       IF bad_href
       THEN /\ stats' = [stats EXCEPT !.pages_failed = @ + 1]
            /\ iter' = [iter EXCEPT !.failed = @ + 1]
            /\ UNCHANGED <<frontier, appendLog>>
       ELSE LET links == extract_links(site[current_url], visited_urls)
                fr == AddAll(Frontier, links) IN
            /\ urls_to_visit' = fr.queue
            /\ urls_in_queue' = fr.in_queue
            /\ appendLog' = fr.appended
            /\ iter' = [iter EXCEPT !.enqueued = TRUE]
            /\ UNCHANGED <<visited_urls, stats>>
  /\ pc' = "sleep"
  /\ UNCHANGED <<units, cfg, site, politeness, now, locals,
                 fetchLog, dequeueLog, finalStats, cause>>

\* _call_error_callback, lines 185-189, called from lines 309, 315 and 320
ErrorCallback ==
  /\ pc = "err_cb"
  /\ IF cfg.on_error
     THEN \E raised \in BOOLEAN :
            /\ iter' = [iter EXCEPT !.error_calls = Append(@, current_url),
                                     !.raised = @ \/ raised]
            /\ pc' = AfterErrorCallback(raised)
     ELSE /\ pc' = "sleep"
          /\ UNCHANGED iter
  /\ cause' = IF pc' \in LoopPcs THEN cause ELSE "page_error"
  /\ UNCHANGED <<units, cfg, site, frontier, stats, politeness, now, locals,
                 fetchLog, appendLog, dequeueLog, finalStats>>

\* line 322
Sleep ==
  /\ pc = "sleep"
  /\ now' = now + delay_to_use
  /\ pc' = "loop"
  /\ UNCHANGED <<units, cfg, site, frontier, stats, politeness, locals, iter, history>>

\* KeyboardInterrupt delivered while the loop runs: no handler inside the loop
\* catches it (they catch Exception), the one of line 326 does
Interrupt ==
  /\ pc \in LoopPcs
  /\ pc' = OuterHandler("KeyboardInterrupt")
  /\ cause' = "interrupt"
  /\ UNCHANGED <<units, cfg, site, frontier, stats, politeness, now, locals, iter,
                 fetchLog, appendLog, dequeueLog, finalStats>>

\* An exception raised by the loop body outside the per-page try block (the
\* rate limiter's wait, line 282, or the sleep of line 322)
UnexpectedError ==
  /\ pc \in {"rate", "sleep"}
  /\ pc' = OuterHandler("Exception")
  /\ cause' = "unexpected"
  /\ UNCHANGED <<units, cfg, site, frontier, stats, politeness, now, locals, iter,
                 fetchLog, appendLog, dequeueLog, finalStats>>

\* line 324, lines 326-328 and lines 329-331: _log_stats(final=True)
LogFinalStats ==
  /\ pc \in {"final_stats", "handler_int", "handler_exc"}
  /\ finalStats' = finalStats + 1
  /\ pc' = "done"
  /\ UNCHANGED <<units, cfg, site, frontier, stats, politeness, now, locals, iter,
                 fetchLog, appendLog, dequeueLog, cause>>

\* KeyboardInterrupt delivered during the _log_stats(final=True) of line 324,
\* before or after its lines were written: the handler of line 326 runs
InterruptFinalStats ==
  /\ pc = "final_stats"
  /\ \E emitted \in {0, 1} : finalStats' = finalStats + emitted
  /\ pc' = OuterHandler("KeyboardInterrupt")
  /\ cause' = "late_interrupt"
  /\ UNCHANGED <<units, cfg, site, frontier, stats, politeness, now, locals, iter,
                 fetchLog, appendLog, dequeueLog>>

\* KeyboardInterrupt delivered inside one of the two handlers: crawl() raises
InterruptHandler ==
  /\ pc \in {"handler_int", "handler_exc"}
  /\ \E emitted \in {0, 1} : finalStats' = finalStats + emitted
  /\ pc' = "raised"
  /\ cause' = "late_interrupt"
  /\ UNCHANGED <<units, cfg, site, frontier, stats, politeness, now, locals, iter,
                 fetchLog, appendLog, dequeueLog>>

Next ==
  \/ SeedFromSitemap
  \/ NoSitemap
  \/ StartCrawl
  \/ FrontierExhausted
  \/ CapReached
  \/ Dequeue
  \/ CheckRobots
  \/ RateLimit
  \/ MarkVisited
  \/ Fetch
  \/ StorePage
  \/ PageCallback
  \/ ExtractLinks
  \/ ErrorCallback
  \/ Sleep
  \/ Interrupt
  \/ UnexpectedError
  \/ LogFinalStats
  \/ InterruptFinalStats
  \/ InterruptHandler

Spec == Init /\ [][Next]_vars

(***************************************************************************)
(* crawl() when every call it makes returns or raises an Exception that    *)
(* the loop handles, and no KeyboardInterrupt arrives.  crawl() is one     *)
(* sequential thread: a step that can be taken is taken.                   *)
(***************************************************************************)
\* a site where a second page links to a URL that robots.txt may have
\* refused before: A -> [B, C], C -> [B, A]
RelinkingSite ==
  [u \in URLS |-> CASE u = "A" -> <<"B", "C">>
                    [] u = "C" -> <<"B", "A">>
                    [] OTHER   -> <<>>]

InitReturning ==
  /\ NewCrawler(Configs, Sites \cup {RelinkingSite})
  /\ RetryIdle
  /\ RateIdle
  /\ RobotsIdle
  /\ OthersIdle
  /\ SitemapIdle

NextReturning ==
  \/ SeedFromSitemap
  \/ NoSitemap
  \/ StartCrawl
  \/ FrontierExhausted
  \/ CapReached
  \/ Dequeue
  \/ CheckRobots
  \/ RateLimit
  \/ MarkVisited
  \/ Fetch
  \/ StorePage
  \/ PageCallback
  \/ ExtractLinks
  \/ ErrorCallback
  \/ Sleep
  \/ LogFinalStats

SpecReturning == InitReturning /\ [][NextReturning]_vars /\ WF_vars(NextReturning)

TypeOK ==
  /\ visited_urls \subseteq URLS
  /\ urls_in_queue \subseteq URLS
  /\ pc \in LoopPcs \cup {"init", "ready", "final_stats", "handler_int",
                          "handler_exc", "done", "raised"}

(***************************************************************************)
(* One call of _fetch_url_with_retry on its own, attempt by attempt: the   *)
(* server's answers and self.max_content_length are the inputs.            *)
(***************************************************************************)
\* the longest list of server answers of a fetch looked at on its own
MaxScriptLen == 4
\* a small self.max_content_length (the attribute is assignable, see
\* tests/test_doc_crawler.py line 52)
SmallLimit == 3

\* the crawler is constructed and crawl() is not running
CrawlerIdle ==
  /\ DocuCrawler
  /\ cfg = Config("A", 0, FALSE, TRUE, TRUE)
  /\ site = ExampleSite

\* Answers that exercise the retry policy: every retryable status, with and
\* without a Retry-After header, a 404, a connection failure, a body that
\* exceeds SmallLimit
RetryReplies ==
  { R200,
    Reply("none", 404, None, <<1>>, None, TRUE),
    Reply("none", 500, None, <<1>>, NotANumber, TRUE),
    Reply("none", 502, None, <<1>>, 0, TRUE),
    Reply("none", 503, None, <<1>>, None, TRUE),
    Reply("none", 504, None, <<1>>, 120, TRUE),
    Reply("none", 429, None, <<1>>, 5, TRUE),
    Reply("connect", 0, None, <<>>, None, FALSE),
    Reply("none", HTTP_OK, None, <<2, 2>>, None, TRUE) }

\* Answers that exercise the size guard: Content-Length absent, not a number,
\* under-reporting, exact and over the limit; bodies below, at and over
\* SmallLimit in one or several chunks; a stream that breaks
GuardReplies ==
  { Reply(fail, HTTP_OK, declared, body, None, TRUE) :
      fail \in {"none", "read"},
      declared \in {None, NotANumber, 0, SmallLimit, SmallLimit + 1},
      body \in { <<>>, <<SmallLimit>>, <<SmallLimit + 1>>, <<2, 2>>, <<1, 1>>,
                 <<2, 1, 1>> } }

Scripts(alphabet, n) == UNION { [1..k -> alphabet] : k \in 1..n }

RetryScripts == Scripts(RetryReplies, MaxScriptLen) \cup Scripts(GuardReplies, 1)

InitRetry ==
  /\ CrawlerIdle
  /\ RateIdle
  /\ RobotsIdle
  /\ OthersIdle
  /\ SitemapIdle
  /\ served \in RetryScripts
  /\ limit \in {SmallLimit, DEFAULT_MAX_CONTENT_LENGTH}
  /\ wrapper = [NoWrapper EXCEPT !.pc = "running"]

\* retry.py lines 79-109: one pass of the for loop: call func, then retry
\* after a sleep, return what func returned or re-raise what it raised
Attempt ==
  /\ wrapper.pc = "running"
  /\ LET result == FetchOnce(ReplyAt(served, wrapper.attempt + 1), limit)
         step == RetryStep(result, wrapper.attempt, wrapper.delay) IN
     wrapper' =
       [pc |-> CASE step.do = "retry" -> "running"
                 [] step.do = "return" -> "returned"
                 [] OTHER -> "raised",
        attempt |-> IF step.do = "retry" THEN wrapper.attempt + 1 ELSE wrapper.attempt,
        delay |-> step.delay,
        slept |-> IF step.do = "retry" THEN Append(wrapper.slept, step.sleep)
                  ELSE wrapper.slept,
        results |-> Append(wrapper.results, result)]
  /\ UNCHANGED <<cfg, site, frontier, stats, politeness, now, pc, locals, iter, history>>
  /\ UNCHANGED <<served, limit, rate_unit, robots_unit, sitemap_unit, other_units>>

NextRetry == Attempt

SpecRetry == InitRetry /\ [][NextRetry]_vars

\* the fetch looked at on its own has returned or raised
FetchEnded == wrapper.pc \in {"returned", "raised"}

\* the attempts agree with the wrapper as crawl() calls it
RetryOK ==
  FetchEnded =>
    LET r == RetryLoop(served, limit, 0, InitialDelay, <<>>) IN
    /\ r.result = wrapper.results[Len(wrapper.results)]
    /\ r.requests = Len(wrapper.results)
    /\ r.slept = wrapper.slept

(***************************************************************************)
(* A SimpleRateLimiter on its own, called by several threads               *)
(* (src/src/utils/rate_limiter.py lines 60-94).                            *)
(***************************************************************************)
\* the calls of wait_if_needed one thread makes
MaxCalls == 2
\* the clock of the rate limiter's runs stops at this many seconds
MaxRateClock == 5

\* the domain arguments of wait_if_needed: None ("") or a host
RateDomains == {"", "e.com"}

\* the lock can be taken whoever holds it
LockFreeAlways(holder) == TRUE

\* line 85: "with self.lock" blocks while another thread holds the lock
LockFree(holder) == holder = NoThread

\* line 83: key = domain or 'global'
KeyOf(domain) == IF domain = "" THEN "global" ELSE domain

InitRate ==
  /\ CrawlerIdle
  /\ RetryIdle
  /\ RobotsIdle
  /\ OthersIdle
  /\ SitemapIdle
  /\ \E delay \in {1, 2} : rate_limiter = SimpleRateLimiter(delay)
  /\ callers = [t \in Threads |-> NotCalling]
  /\ returns = EmptyDict

rate_frame == <<cfg, site, frontier, stats, robots, robots_replies, pc, locals, iter,
                history, retry_unit, robots_unit, sitemap_unit, other_units>>

\* line 83: a thread calls wait_if_needed(domain)
Call(t) ==
  /\ callers[t].pc = "idle"
  /\ callers[t].calls < MaxCalls
  /\ \E domain \in RateDomains :
       callers' = [callers EXCEPT ![t] = [@ EXCEPT !.pc = "acquire", !.domain = domain,
                                                    !.key = KeyOf(domain)]]
  /\ UNCHANGED <<rate_frame, rate_limiter, returns, last_request_time, now>>

\* lines 85-91: the lock is taken, the clock read and the wait computed
Acquire(t) ==
  /\ callers[t].pc = "acquire"
  /\ LockFree(rate_limiter.lock)
  /\ rate_limiter' = [rate_limiter EXCEPT !.lock = t]
  /\ LET wait_time == WaitTime(last_request_time, callers[t].key, now, rate_limiter.delay) IN
     callers' = [callers EXCEPT ![t] = [@ EXCEPT !.pc = IF wait_time > 0 THEN "sleep" ELSE "update",
                                                  !.started = now,
                                                  !.wait_time = wait_time]]
  /\ UNCHANGED <<rate_frame, returns, last_request_time, now>>

\* line 92: time.sleep(wait_time) returns once wait_time seconds have passed
Wake(t) ==
  /\ callers[t].pc = "sleep"
  /\ now >= callers[t].started + callers[t].wait_time
  /\ callers' = [callers EXCEPT ![t] = [@ EXCEPT !.pc = "update"]]
  /\ UNCHANGED <<rate_frame, rate_limiter, returns, last_request_time, now>>

\* line 94 and the end of the with block: the time is recorded, the lock
\* released and the call returns
Update(t) ==
  /\ callers[t].pc = "update"
  /\ last_request_time' = Put(last_request_time, callers[t].key, now)
  /\ rate_limiter' = [rate_limiter EXCEPT
                        !.lock = IF rate_limiter.lock = t THEN NoThread ELSE @]
  /\ returns' = Put(returns, KeyOf(callers[t].domain), [thread |-> t, time |-> now])
  /\ callers' = [callers EXCEPT ![t] = [@ EXCEPT !.pc = "idle", !.calls = @ + 1]]
  /\ UNCHANGED <<rate_frame, now>>

\* a second passes
Tick ==
  /\ now < MaxRateClock
  /\ now' = now + 1
  /\ UNCHANGED <<rate_frame, rate_unit, last_request_time>>

NextRate ==
  \/ \E t \in Threads : Call(t)
  \/ \E t \in Threads : Acquire(t)
  \/ \E t \in Threads : Wake(t)
  \/ \E t \in Threads : Update(t)
  \/ Tick

SpecRate == InitRate /\ [][NextRate]_vars

(***************************************************************************)
(* A RobotsTxtChecker on its own: can_fetch and get_crawl_delay called at  *)
(* any time for URLs of two domains (src/src/utils/robots.py).             *)
(***************************************************************************)
\* the clock of the robots checker's runs stops at this many seconds
MaxRobotsClock == 3700

\* the URLs the checker is asked about: two of one domain, one of another
RobotsUrls == {"A", "B", "X"}

\* the seconds a robots.txt request may take
RequestTimes == {0, 1}

\* the seconds that may pass between two calls
Pauses == {DEFAULT_CACHE_DURATION - 1, DEFAULT_CACHE_DURATION}

\* the outcomes of a robots.txt request: it raises, it is refused, there is no
\* file, there is a file
RobotsOutcomes ==
  { reply \in RobotsReplies :
      reply.status = HTTP_OK => reply.file.disallow = {"B"} }

InitRobots ==
  /\ CrawlerIdle
  /\ RetryIdle
  /\ RateIdle
  /\ RobotsIdle
  /\ OthersIdle
  /\ SitemapIdle

robots_frame == <<cfg, site, frontier, stats, last_request_time, pc, locals, iter,
                  history, retry_unit, rate_unit, sitemap_unit, other_units>>

\* what a call leaves behind: the cache, the clock and the request log
AfterCall(op, url, reply, r) ==
  /\ robots' = r.rc
  /\ now' = r.now
  /\ robots_replies' = IF r.fetched THEN Put(robots_replies, _get_domain(url), reply)
                        ELSE robots_replies
  /\ robots_gets' = IF r.fetched
                     THEN Append(robots_gets, [domain |-> _get_domain(url), time |-> now])
                     ELSE robots_gets
  /\ robots_call' = [op |-> op, url |-> url, at |-> now]

\* robots.py lines 102-126
CallCanFetch ==
  /\ \E url \in RobotsUrls, reply \in RobotsOutcomes, took \in RequestTimes :
       /\ now + took <= MaxRobotsClock
       /\ AfterCall("can_fetch", url, reply, can_fetch(robots, url, now, reply, took))
  /\ UNCHANGED robots_frame

\* robots.py lines 128-147
CallGetCrawlDelay ==
  /\ \E url \in RobotsUrls, reply \in RobotsOutcomes, took \in RequestTimes :
       /\ now + took <= MaxRobotsClock
       /\ AfterCall("get_crawl_delay", url, reply,
                    get_crawl_delay(robots, url, now, reply, took))
  /\ UNCHANGED robots_frame

\* time passes between two calls
Elapse ==
  /\ \E pause \in Pauses :
       /\ now + pause <= MaxRobotsClock
       /\ now' = now + pause
  /\ UNCHANGED <<robots_frame, robots, robots_replies, robots_unit>>

NextRobots ==
  \/ CallCanFetch
  \/ CallGetCrawlDelay
  \/ Elapse

SpecRobots == InitRobots /\ [][NextRobots]_vars

(***************************************************************************)
(* SitemapParser.fetch_urls on its own (src/src/utils/sitemap.py): the     *)
(* recursion over nested sitemap indexes as a stack of frames.             *)
(***************************************************************************)
\* fetch_urls' default max_depth
DefaultMaxDepth == 10
\* a small max_depth argument
ShallowDepth == 2
\* the longest list of <loc> elements of a sitemap index of the model
MaxLocs == 2

\* sitemap URLs and the page URLs urlsets list
SitemapNodes == {"M", "M1", "M2"}
PageUrls == {"B", "C"}

\* What a sitemap URL serves: a sitemap index or a urlset with its <loc>s, a
\* failed request (the GET or raise_for_status raises), a document that says
\* <sitemapindex or <urlset but is not well-formed XML, or something else
SitemapDocs ==
  { [kind |-> "index", locs |-> locs] : locs \in Scripts(SitemapNodes, MaxLocs) }
  \cup { [kind |-> "urlset", locs |-> locs] : locs \in {<<"B">>, <<"C", "B">>} }
  \cup { [kind |-> k, locs |-> <<>>] :
           k \in {"fail", "malformed_index", "malformed_urlset", "unknown"} }

\* the exception the processing of a document raises ("" when none)
SitemapException(doc) ==
  CASE doc.kind = "fail" -> "RequestException"
    [] doc.kind \in {"malformed_index", "malformed_urlset"} -> "ParseError"
    [] OTHER -> ""

\* handlers that let the exception escape
SitemapErrorEscapes(exc) == "raise"

\* lines 76-77, 99-100 and 119-120: the exception is logged and the node
\* returns the URLs it has
SitemapErrorCaught(exc) == "return"

\* a recursion without the visited test
AlreadyVisitedNever(url, visited) == FALSE

\* line 46: "if sitemap_url in visited"
AlreadyVisited(url, visited) == url \in visited

InitSitemap ==
  /\ CrawlerIdle
  /\ RetryIdle
  /\ RateIdle
  /\ RobotsIdle
  /\ OthersIdle
  /\ sitemap_docs \in [SitemapNodes -> SitemapDocs]
  /\ \E max_depth \in {ShallowDepth, DefaultMaxDepth} :
       \* the caller's frame: it calls fetch_urls("M", max_depth=max_depth)
       sitemap_stack = <<[url |-> "caller", max_depth |-> max_depth + 1, urls |-> {},
                          locs |-> <<"M">>]>>
  /\ sitemap_visited = {}
  /\ sitemap_gets = <<>>
  /\ sitemap_result = [pc |-> "running", urls |-> {}]

sitemap_frame == <<cfg, site, frontier, stats, politeness, now, pc, locals, iter,
                   history, retry_unit, rate_unit, robots_unit,
                   other_units>>

\* the frame that is executing and the call it is about to make
Top == sitemap_stack[Len(sitemap_stack)]
NextLoc == Head(Top.locs)
Calling == sitemap_result.pc = "running" /\ Top.locs # <<>>

\* the stack after the call for NextLoc returned `urls': lines 116-117,
\* urls.update(sub_urls), and the loop goes on to the next <loc>
Returned(stack, urls) ==
  [stack EXCEPT ![Len(stack)] = [@ EXCEPT !.urls = @ \cup urls, !.locs = Tail(@)]]

\* lines 42-48: the call returns [] at once: depth exhausted or URL visited
SkipSitemap ==
  /\ Calling
  /\ Top.max_depth - 1 <= 0 \/ AlreadyVisited(NextLoc, sitemap_visited)
  /\ sitemap_stack' = Returned(sitemap_stack, {})
  /\ UNCHANGED <<sitemap_frame, sitemap_docs, sitemap_visited, sitemap_gets,
                 sitemap_result>>

\* lines 50-79 for a URL that serves no sitemap index: the request, then a
\* urlset's URLs (lines 81-97), or nothing
FetchSitemap ==
  /\ Calling
  /\ ~(Top.max_depth - 1 <= 0 \/ AlreadyVisited(NextLoc, sitemap_visited))
  /\ sitemap_docs[NextLoc].kind # "index"
  /\ sitemap_visited' = sitemap_visited \cup {NextLoc}
  /\ sitemap_gets' = Append(sitemap_gets, NextLoc)
  /\ LET doc == sitemap_docs[NextLoc]
         exc == SitemapException(doc) IN
     IF exc # "" /\ SitemapErrorCaught(exc) = "raise"
     THEN /\ sitemap_result' = [sitemap_result EXCEPT !.pc = "raised"]
          /\ UNCHANGED sitemap_stack
     ELSE /\ sitemap_stack' = Returned(sitemap_stack,
                                       IF doc.kind = "urlset" THEN Range(doc.locs) ELSE {})
          /\ UNCHANGED sitemap_result
  /\ UNCHANGED <<sitemap_frame, sitemap_docs>>

\* lines 50-70 and 102-114 for a sitemap index: the request, then the loop
\* over its <loc>s starts
EnterIndex ==
  /\ Calling
  /\ ~(Top.max_depth - 1 <= 0 \/ AlreadyVisited(NextLoc, sitemap_visited))
  /\ sitemap_docs[NextLoc].kind = "index"
  /\ sitemap_visited' = sitemap_visited \cup {NextLoc}
  /\ sitemap_gets' = Append(sitemap_gets, NextLoc)
  /\ sitemap_stack' = Append(sitemap_stack,
                             [url |-> NextLoc, max_depth |-> Top.max_depth - 1,
                              urls |-> {}, locs |-> sitemap_docs[NextLoc].locs])
  /\ UNCHANGED <<sitemap_frame, sitemap_docs, sitemap_result>>

\* line 79 in a nested call: the index's loop is over, its URLs go to the
\* frame that called it
LeaveIndex ==
  /\ sitemap_result.pc = "running"
  /\ Top.locs = <<>>
  /\ Len(sitemap_stack) > 1
  /\ sitemap_stack' = Returned(SubSeq(sitemap_stack, 1, Len(sitemap_stack) - 1), Top.urls)
  /\ UNCHANGED <<sitemap_frame, sitemap_docs, sitemap_visited, sitemap_gets,
                 sitemap_result>>

\* the top-level call has returned to its caller
SitemapDone ==
  /\ sitemap_result.pc = "running"
  /\ Top.locs = <<>>
  /\ Len(sitemap_stack) = 1
  /\ sitemap_result' = [pc |-> "done", urls |-> Top.urls]
  /\ UNCHANGED <<sitemap_frame, sitemap_docs, sitemap_stack, sitemap_visited,
                 sitemap_gets>>

NextSitemap ==
  \/ SkipSitemap
  \/ FetchSitemap
  \/ EnterIndex
  \/ LeaveIndex
  \/ SitemapDone

\* fetch_urls is sequential code: it keeps running until it returns
SpecSitemap == InitSitemap /\ [][NextSitemap]_vars /\ WF_vars(NextSitemap)

(***************************************************************************)
(* fetch_urls on sitemaps that all answer with well-formed XML: nested     *)
(* indexes over four sitemap URLs, some reachable through several chains.  *)
(***************************************************************************)
NestedNodes == SitemapNodes \cup {"M3"}

\* the <loc> lists of the nested indexes: one or two distinct sitemaps, in
\* either order
NestedLocs ==
  { <<a>> : a \in NestedNodes \ {"M"} }
  \cup ({ <<a, b>> : a, b \in NestedNodes \ {"M"} } \ { <<a, a>> : a \in NestedNodes })

WellFormedDocs ==
  { [kind |-> "index", locs |-> locs] : locs \in NestedLocs }
  \cup { [kind |-> "urlset", locs |-> locs] : locs \in {<<"B">>, <<"C">>} }

InitNested ==
  /\ CrawlerIdle
  /\ RetryIdle
  /\ RateIdle
  /\ RobotsIdle
  /\ OthersIdle
  /\ sitemap_docs \in [NestedNodes -> WellFormedDocs]
  /\ \E max_depth \in {ShallowDepth, ShallowDepth + 1} :
       sitemap_stack = <<[url |-> "caller", max_depth |-> max_depth + 1, urls |-> {},
                          locs |-> <<"M">>]>>
  /\ sitemap_visited = {}
  /\ sitemap_gets = <<>>
  /\ sitemap_result = [pc |-> "running", urls |-> {}]

SpecNested == InitNested /\ [][NextSitemap]_vars

(***************************************************************************)
(* DocuCrawler(...) on its own: the validation of the arguments (lines     *)
(* 63-74) and the operations the constructor performs after it.            *)
(***************************************************************************)
\* the arguments tried: every kind of start_url the checks tell apart, numbers
\* below, at and above the limits, output directories absent, empty and named
StartUrls ==
  { PyNone, PyInt(0), PyInt(7), PyStr(<<>>),
    PyStr(<<"ftp://", "e.com", "/">>),
    PyStr(<<"e.com", "/", "d", "/">>),
    PyStr(<<"HTTP://", "e.com", "/">>),
    PyStr(<<"http://", "e.com", "/", "d", "/">>),
    PyStr(<<"https://", "e.com", "/", "d", "/">>),
    PyStr(<<"https://", "e.com", "/", "sitemap", ".xml">>) }
Delays == {-1, 0, 1}
Timeouts == {-1, 0, 10}
MaxPagesArgs == {-1, 0, 2}
OutputDirs == { PyNone, PyStr(<<>>), PyStr(<<"downloaded_docs">>) }

ConstructorArgs ==
  [start_url : StartUrls, delay : Delays, timeout : Timeouts, max_pages : MaxPagesArgs,
   output_dir : OutputDirs, single_file : BOOLEAN]

\* Python's truth value of an argument
Truthy(v) ==
  CASE v.type = "NoneType" -> FALSE
    [] v.type = "int" -> v.number # 0
    [] OTHER -> v.text # <<>>

\* isinstance(v, str)
IsStr(v) == v.type = "str"

\* v.startswith(('http://', 'https://'))
StartsWithHttp(v) == v.text # <<>> /\ Head(v.text) \in {"http://", "https://"}

\* line 117: start_url.lower().endswith('.xml') or 'sitemap' in start_url.lower()
IsSitemapArg(v) ==
  v.text # <<>> /\ (v.text[Len(v.text)] = ".xml" \/ "sitemap" \in Range(v.text))

\* a constructor that checks the URL only
ValidateUrlOnly(args) ==
  IF ~Truthy(args.start_url) \/ ~IsStr(args.start_url) THEN "InvalidURLError"
  ELSE IF ~StartsWithHttp(args.start_url) THEN "InvalidURLError"
  ELSE ""

\* lines 63-74: the exception raised, "" when the arguments pass
Validate(args) ==
  IF ~Truthy(args.start_url) \/ ~IsStr(args.start_url) THEN "InvalidURLError"
  ELSE IF ~StartsWithHttp(args.start_url) THEN "InvalidURLError"
  ELSE IF args.delay < 0 THEN "ValueError"
  ELSE IF args.timeout <= 0 THEN "ValueError"
  ELSE IF args.max_pages < 0 THEN "ValueError"
  ELSE IF ~Truthy(args.output_dir) \/ ~IsStr(args.output_dir) THEN "ValueError"
  ELSE ""

\* lines 116-169: the network and storage operations of a construction that
\* passed validation: the sitemap request, the output directory made by the
\* storage backend (local.py line 20), the combined file looked up and, when
\* it exists, overwritten
Effects(args, combined_exists) ==
  (IF IsSitemapArg(args.start_url) THEN <<"get_sitemap">> ELSE <<>>)
  \o <<"mkdir">>
  \o (IF args.single_file
      THEN <<"exists">> \o (IF combined_exists THEN <<"save_file">> ELSE <<>>)
      ELSE <<>>)

InitConstruct ==
  /\ CrawlerIdle
  /\ RetryIdle
  /\ RateIdle
  /\ RobotsIdle
  /\ SitemapIdle
  /\ HtmlIdle
  /\ StorageIdle
  /\ ctor_args \in ConstructorArgs
  /\ ctor = [NoConstruction EXCEPT !.pc = "called"]

construct_frame == <<cfg, site, frontier, stats, politeness, now, pc, locals, iter,
                     history, retry_unit, rate_unit, robots_unit, sitemap_unit,
                     html_unit, storage_unit>>

\* DocuCrawler.__init__, lines 63-175
Construct ==
  /\ ctor.pc = "called"
  /\ \E combined_exists \in BOOLEAN :
       LET exc == Validate(ctor_args) IN
       ctor' = IF exc # ""
               THEN [pc |-> "raised", exc |-> exc, effects |-> <<>>]
               ELSE [pc |-> "constructed", exc |-> "",
                     effects |-> Effects(ctor_args, combined_exists)]
  /\ UNCHANGED <<construct_frame, ctor_args>>

NextConstruct == Construct

SpecConstruct == InitConstruct /\ [][NextConstruct]_vars

(***************************************************************************)
(* A LocalStorageBackend on its own (src/src/utils/storage/local.py): a    *)
(* path is the sequence of its characters.                                 *)
(***************************************************************************)
\* the longest file_path passed to the backend
MaxPathLen == 5

\* the characters of the paths tried: both separators, the dot, a reserved
\* character and a letter
PathChars == {"/", "\\", ".", ":", "a"}

\* line 121: the characters str.translate removes
ReservedChars == {"<", ">", ":", "\"", "|", "?", "*"}

FilePaths == UNION { [1..n -> PathChars] : n \in 0..MaxPathLen }

\* str.lstrip(c)
RECURSIVE lstrip(_, _)
lstrip(str, c) == IF str # <<>> /\ Head(str) = c THEN lstrip(Tail(str), c) ELSE str

\* str.replace(old, new) for single characters
replace(str, old, new) == [i \in 1..Len(str) |-> IF str[i] = old THEN new ELSE str[i]]

\* str.split(sep): the pieces between the separators, the empty ones included
RECURSIVE split(_, _)
split(str, sep) ==
  IF \A i \in 1..Len(str) : str[i] # sep THEN <<str>>
  ELSE LET i == CHOOSE k \in 1..Len(str) :
                  str[k] = sep /\ \A j \in 1..(k - 1) : str[j] # sep IN
       <<SubSeq(str, 1, i - 1)>> \o split(SubSeq(str, i + 1, Len(str)), sep)

\* str.translate(str.maketrans('', '', deleted))
translate(str, deleted) == SelectSeq(str, LAMBDA c : c \notin deleted)

DotDot == <<".", ".">>
Dot == <<".">>

\* lines 115-123: the loop over the pieces of the path
RECURSIVE SanitizeParts(_, _)
SanitizeParts(pieces, parts) ==
  IF pieces = <<>> THEN parts
  ELSE LET part == Head(pieces) IN
       SanitizeParts(Tail(pieces),
         IF part = DotDot
         THEN (IF parts # <<>> THEN SubSeq(parts, 1, Len(parts) - 1) ELSE parts)
         ELSE IF part # <<>> /\ part # Dot
         THEN LET kept == translate(part, ReservedChars) IN
              IF kept # <<>> THEN Append(parts, kept) ELSE parts
         ELSE parts)

\* LocalStorageBackend._sanitize_path: the segments of the Path returned
_sanitize_path(file_path) ==
  LET path == replace(lstrip(lstrip(file_path, "/"), "\\"), "\\", "/")
      parts == SanitizeParts(split(path, "/"), <<>>) IN
  IF parts # <<>> THEN parts ELSE << <<"index.md">> >>

\* self.output_dir / safe_path as the file system resolves it: how many
\* directories above the output directory the walk went at most, and the
\* segments below the directory where it ends
RECURSIVE Resolve(_, _, _)
Resolve(segments, below, above) ==
  IF segments = <<>> THEN [above |-> above, below |-> below]
  ELSE IF Head(segments) = DotDot
  THEN IF below = <<>> THEN Resolve(Tail(segments), below, above + 1)
       ELSE Resolve(Tail(segments), SubSeq(below, 1, Len(below) - 1), above)
  ELSE IF Head(segments) = Dot THEN Resolve(Tail(segments), below, above)
  ELSE Resolve(Tail(segments), Append(below, Head(segments)), above)

InitStorage ==
  /\ CrawlerIdle
  /\ RetryIdle
  /\ RateIdle
  /\ RobotsIdle
  /\ SitemapIdle
  /\ ConstructIdle
  /\ HtmlIdle
  /\ storage = {}
  /\ \E file_path \in FilePaths :
       storage_call = [op |-> "", calls |-> 0, file_path |-> file_path,
                       safe_path |-> <<>>]

storage_frame == <<cfg, site, frontier, stats, politeness, now, pc, locals, iter,
                   history, retry_unit, rate_unit, robots_unit, sitemap_unit,
                   construct_unit, html_unit>>

\* what save_file and append_file have in common (lines 31-33 and 90-92): the
\* file at output_dir / safe_path is created
Write(op) ==
  /\ storage_call.calls = 0
  /\ LET safe_path == _sanitize_path(storage_call.file_path) IN
     /\ storage' = storage \cup {Resolve(safe_path, <<>>, 0)}
     /\ storage_call' = [storage_call EXCEPT !.op = op, !.calls = @ + 1,
                                             !.safe_path = safe_path]
  /\ UNCHANGED storage_frame

\* LocalStorageBackend.save_file
SaveFile == Write("save_file")

\* LocalStorageBackend.append_file
AppendFile == Write("append_file")

NextStorage ==
  \/ SaveFile
  \/ AppendFile

SpecStorage == InitStorage /\ [][NextStorage]_vars

(***************************************************************************)
(* The files a crawl in per-page mode writes (process_page, lines 230-233):*)
(* the pages fetched are saved one after the other, each under the path    *)
(* get_filepath gives its URL.                                             *)
(***************************************************************************)
\* the URLs a crawl from the start URL can fetch
FetchableUrls ==
  {u \in URLS : u = cfg.start_url \/ is_valid_url(u, base_domain, base_path)}

InitSave ==
  /\ CrawlerIdle
  /\ RetryIdle
  /\ RateIdle
  /\ RobotsIdle
  /\ SitemapIdle
  /\ ConstructIdle
  /\ HtmlIdle
  /\ StorageIdle

\* lines 230-233 for one more fetched page
SavePage ==
  /\ \E url \in FetchableUrls \ {file.page : file \in storage} :
       LET ops == StoreOps(cfg.single_file, url, base_path, TRUE, TRUE) IN
       /\ storage' = storage \cup {ops[1]}
       /\ storage_call' = [op |-> ops[1].op, calls |-> storage_call.calls + 1,
                           file_path |-> ops[1].path, page |-> url]
  /\ UNCHANGED storage_frame

NextSave == SavePage

SpecSave == InitSave /\ [][NextSave]_vars

(***************************************************************************)
(* An HtmlProcessor on its own (src/src/processors/html_processor.py).     *)
(* A string is the sequence of its tokens: words, " ", "\n" and the marks  *)
(* of Markdown and of URLs.  A URL or href is held as the parts urlparse   *)
(* splits its text into; UrlText gives the text back.                      *)
(***************************************************************************)
\* the number of calls made on one processor
MaxConversions == 2

Url(scheme, netloc, path, fragment) ==
  [scheme |-> scheme, netloc |-> netloc, path |-> path, fragment |-> fragment]

\* urlunparse: a scheme is followed by ":", a netloc preceded by "//", a
\* fragment by "#"
UrlText(u) ==
  (IF u.scheme # "" THEN <<u.scheme, ":">> ELSE <<>>)
  \o (IF u.netloc # "" THEN <<"//", u.netloc>> ELSE <<>>)
  \o u.path
  \o (IF u.fragment # "" THEN <<"#", u.fragment>> ELSE <<>>)

\* str.lower() of a scheme as written in a page
Lower(scheme) ==
  CASE scheme = "JavaScript" -> "javascript"
    [] scheme = "MAILTO" -> "mailto"
    [] OTHER -> scheme

\* urllib.parse.uses_relative / uses_netloc, as far as the schemes of the model go
UsesRelative == {"", "http", "https", "ftp"}

\* str.startswith(prefix)
startswith(str, prefix) == IsPrefix(prefix, str)

\* '/'.join(segments)
RECURSIVE JoinSegments(_)
JoinSegments(segments) ==
  IF segments = <<>> THEN <<>>
  ELSE IF Len(segments) = 1 THEN Head(segments)
  ELSE Head(segments) \o <<"/">> \o JoinSegments(Tail(segments))

\* urljoin, the loop that resolves "." and ".." segments
RECURSIVE ResolveSegments(_, _)
ResolveSegments(segments, resolved_path) ==
  IF segments = <<>> THEN resolved_path
  ELSE LET seg == Head(segments) IN
       ResolveSegments(Tail(segments),
         IF seg = <<"..">>
         THEN (IF resolved_path # <<>>
               THEN SubSeq(resolved_path, 1, Len(resolved_path) - 1)
               ELSE resolved_path)
         ELSE IF seg = <<".">> THEN resolved_path
         ELSE Append(resolved_path, seg))

\* urljoin, the path of a relative reference merged with the base path
MergePaths(bpath, path) ==
  LET bsplit == split(bpath, "/")
      base_parts == IF bsplit[Len(bsplit)] # <<>>
                    THEN SubSeq(bsplit, 1, Len(bsplit) - 1) ELSE bsplit
      joined == IF path # <<>> /\ Head(path) = "/" THEN split(path, "/")
                ELSE base_parts \o split(path, "/")
      \* segments[1:-1] = filter(None, segments[1:-1])
      segments == IF Len(joined) <= 2 THEN joined
                  ELSE <<joined[1]>>
                       \o SelectSeq(SubSeq(joined, 2, Len(joined) - 1),
                                    LAMBDA seg : seg # <<>>)
                       \o <<joined[Len(joined)]>>
      resolved == ResolveSegments(segments, <<>>)
      closed == IF segments[Len(segments)] \in {<<".">>, <<"..">>}
                THEN Append(resolved, <<>>) ELSE resolved
      text == JoinSegments(closed) IN
  \* '/'.join(resolved_path) or '/'; urlunsplit puts a "/" between a netloc
  \* and a path that does not start with one
  IF text = <<>> THEN <<"/">>
  ELSE IF Head(text) # "/" THEN <<"/">> \o text
  ELSE text

\* urllib.parse.urljoin(base, url) for a base with an http(s) scheme
urljoin(base, url) ==
  IF UrlText(url) = <<>> THEN base
  ELSE LET scheme == IF url.scheme # "" THEN Lower(url.scheme) ELSE base.scheme IN
       IF scheme # base.scheme \/ scheme \notin UsesRelative THEN url
       ELSE IF url.netloc # "" THEN Url(scheme, url.netloc, url.path, url.fragment)
       ELSE IF url.path = <<>> THEN Url(scheme, base.netloc, base.path, url.fragment)
       ELSE Url(scheme, base.netloc, MergePaths(base.path, url.path), url.fragment)

\* urllib.parse.urldefrag(url)[0]
urldefrag(url) == [url EXCEPT !.fragment = ""]

\* The parsed document.  A node is a string (tag "#text") or an element with
\* its children; href is <<>> when the element has no href attribute and
\* <<url>> when it has one.
Text(tokens) == [tag |-> "#text", href |-> <<>>, text |-> tokens, kids |-> <<>>]
Elem(tag, kids) == [tag |-> tag, href |-> <<>>, text |-> <<>>, kids |-> kids]
Anchor(href, kids) == [tag |-> "a", href |-> <<href>>, text |-> <<>>, kids |-> kids]

\* BeautifulSoup(html_content, 'html.parser') of a document: the text of its
\* <title> (<<>> when there is none), whether it has a <body>, and the nodes
\* inside the body (at the top of the document when there is no body)
Page(title, has_body, top) == [title |-> title, has_body |-> has_body, top |-> top]

\* find_all(tags): the elements with one of the tags, in document order
RECURSIVE find_all(_, _)
find_all(nodes, tags) ==
  IF nodes = <<>> THEN <<>>
  ELSE LET node == Head(nodes) IN
       (IF node.tag \in tags THEN <<node>> ELSE <<>>)
       \o find_all(node.kids, tags)
       \o find_all(Tail(nodes), tags)

\* what a caller may pass as is_valid_url_func: a predicate that accepts every
\* URL, and one that accepts the URLs of the host e.com
UrlPredicates == {"any", "same_host"}
is_valid_url_func(f, url) ==
  CASE f = "any" -> TRUE
    [] OTHER -> url.netloc = "e.com"

\* lines 716-720: the hrefs extract_links passes over
SkippedHref(href) ==
  \/ startswith(UrlText(href), <<"#">>)
  \/ startswith(UrlText(href), <<"javascript", ":">>)
  \/ startswith(UrlText(href), <<"mailto", ":">>)
  \/ startswith(UrlText(href), <<"tel", ":">>)

\* lines 713-730: the loop over the anchors that have an href
RECURSIVE ExtractedLinks(_, _, _)
ExtractedLinks(a_tags, page_url, f) ==
  IF a_tags = <<>> THEN <<>>
  ELSE LET href == Head(a_tags).href[1]
           absolute_url == urldefrag(urljoin(page_url, href))
           rest == ExtractedLinks(Tail(a_tags), page_url, f) IN
       IF SkippedHref(href) THEN rest
       ELSE IF is_valid_url_func(f, absolute_url) THEN <<absolute_url>> \o rest
       ELSE rest

\* HtmlProcessor.extract_links(html_content, page_url, is_valid_url_func)
HtmlExtractLinks(page, page_url, f) ==
  ExtractedLinks(SelectSeq(find_all(page.top, {"a"}), LAMBDA a : a.href # <<>>),
                 page_url, f)

\* str.strip(): leading and trailing white space removed
IsSpace(token) == token \in {" ", "\n", "\t"}
strip(str) ==
  LET inked == {i \in 1..Len(str) : ~IsSpace(str[i])} IN
  IF inked = {} THEN <<>>
  ELSE SubSeq(str, CHOOSE i \in inked : \A j \in inked : i <= j,
                   CHOOSE i \in inked : \A j \in inked : i >= j)

\* sep.join(parts)
RECURSIVE join(_, _)
join(parts, sep) ==
  IF parts = <<>> THEN <<>>
  ELSE IF Len(parts) = 1 THEN Head(parts)
  ELSE Head(parts) \o sep \o join(Tail(parts), sep)

\* str without the tokens at the places where Dropped(str, i) holds
Without(str, Dropped(_, _)) ==
  LET placed == [i \in 1..Len(str) |-> <<i, str[i]>>]
      kept == SelectSeq(placed, LAMBDA p : ~Dropped(str, p[1])) IN
  [i \in 1..Len(kept) |-> kept[i][2]]

\* re.sub(r' +', ' ', str) and re.sub(r'[ \t]+', ' ', str): of a run of
\* spaces the last one stays
CollapseSpaces(str) ==
  Without(str, LAMBDA t, i : i < Len(t) /\ t[i] = " " /\ t[i + 1] = " ")

\* re.sub(r'\n{3,}', '\n\n', str): of a run of newlines the last two stay
CollapseNewlines(str) ==
  Without(str, LAMBDA t, i : /\ i + 1 < Len(t)
                             /\ t[i] = "\n" /\ t[i + 1] = "\n" /\ t[i + 2] = "\n")

\* config.py lines 27-41: HtmlProcessorConfig.should_skip_link
should_skip_link(config, href) ==
  IF config.ignore_links THEN TRUE
  ELSE IF /\ config.skip_internal_links
          /\ config.base_url # <<>>
          /\ UrlText(config.base_url[1]) # <<>>
          /\ \/ href.netloc = config.base_url[1].netloc
             \/ href.netloc = "" /\ startswith(UrlText(href), <<"/">>)
  THEN TRUE
  ELSE FALSE

\* HtmlProcessor.ELEMENTS_TO_REMOVE, the tag selectors
ELEMENTS_TO_REMOVE ==
  {"script", "style", "iframe", "nav", "footer", "header", "aside", "noscript",
   "meta", "button", "svg", "canvas"}

\* lines 76-78 (and line 337 for the fallback): the elements of the given tags
\* decomposed
RECURSIVE Decompose(_, _)
Decompose(nodes, tags) ==
  IF nodes = <<>> THEN <<>>
  ELSE LET node == Head(nodes) IN
       (IF node.tag \in tags THEN <<>>
        ELSE <<[node EXCEPT !.kids = Decompose(node.kids, tags)]>>)
       \o Decompose(Tail(nodes), tags)

\* HtmlProcessor._get_inline_text(element), given the element's children
RECURSIVE _get_inline_text(_)
_get_inline_text(kids) ==
  IF kids = <<>> THEN <<>>
  ELSE (IF Head(kids).tag = "#text" THEN Head(kids).text
        ELSE _get_inline_text(Head(kids).kids))
       \o _get_inline_text(Tail(kids))

BlockTags == {"p", "div", "section", "article", "main",
              "h1", "h2", "h3", "h4", "h5", "h6"}

\* HtmlProcessor._build_markdown_from_tree(element), lines 218-256, given the
\* element's children: BuildParts is markdown_parts
RECURSIVE BuildParts(_), _build_markdown_from_tree(_)
BuildParts(kids) ==
  IF kids = <<>> THEN <<>>
  ELSE LET child == Head(kids)
           child_md == strip(_build_markdown_from_tree(child.kids)) IN
       (CASE child.tag = "#text" ->
               IF strip(child.text) # <<>> THEN <<strip(child.text)>> ELSE <<>>
          [] child.tag \in BlockTags ->
               IF child_md # <<>> THEN <<child_md, <<>>>> ELSE <<>>
          [] child.tag = "br" -> << <<"\n">> >>
          [] OTHER ->
               IF child_md # <<>> THEN <<child_md>> ELSE <<>>)
       \o BuildParts(Tail(kids))

_build_markdown_from_tree(kids) ==
  CollapseNewlines(CollapseSpaces(join(BuildParts(kids), <<" ">>)))

\* the local header_cells of _process_tables before its first assignment
Unbound == 0 - 1

\* lines 592-595: the text of the cells of a row
CellTexts(cells) ==
  [i \in 1..Len(cells) |->
     replace(replace(strip(_build_markdown_from_tree(cells[i].kids)), "|", "\\|"),
             "\n", " ")]

\* '| ' + ' | '.join(cell_texts) + ' |'
RowText(cell_texts) == <<"|", " ">> \o join(cell_texts, <<" ", "|", " ">>) \o <<" ", "|">>

\* '| ' + ' | '.join(['---'] * n) + ' |'
SeparatorRow(n) == RowText([i \in 1..n |-> <<"---">>])

\* [''] * n: the empty list when n is not positive
Blanks(n) == [i \in 1..n |-> <<>>]

\* lines 614-615: a body row padded to the header's width
BodyRow(cell_texts, header_cols) ==
  IF header_cols # None /\ header_cols # 0 /\ Len(cell_texts) # header_cols
  THEN cell_texts \o Blanks(header_cols - Len(cell_texts))
  ELSE cell_texts

\* lines 603-618: the rows of the tbody
RECURSIVE BodyRows(_, _)
BodyRows(rows, header_cols) ==
  IF rows = <<>> THEN <<>>
  ELSE LET cells == find_all(Head(rows).kids, {"td", "th"}) IN
       (IF cells = <<>> THEN <<>>
        ELSE <<RowText(BodyRow(CellTexts(cells), header_cols))>>)
       \o BodyRows(Tail(rows), header_cols)

\* lines 620-652: the rows of a table that gave no row so far; i counts the <tr>
\* elements from 0 and the separator follows the row of index 0
RECURSIVE PlainRows(_, _)
PlainRows(rows, i) ==
  IF rows = <<>> THEN <<>>
  ELSE LET cells == find_all(Head(rows).kids, {"td", "th"}) IN
       (IF cells = <<>> THEN <<>>
        ELSE <<RowText(CellTexts(cells))>>
             \o (IF i = 0 THEN <<SeparatorRow(Len(cells))>> ELSE <<>>))
       \o PlainRows(Tail(rows), i + 1)

\* lines 587-588: the cells of table.find('thead').find_all('th'), <<>> when
\* the table has no thead
TheadCells(table) ==
  IF find_all(table.kids, {"thead"}) = <<>> THEN <<>>
  ELSE find_all(Head(find_all(table.kids, {"thead"})).kids, {"th"})

\* the number of cells header_cells holds after lines 587-588
HeaderCellsAfter(table, header_cells) ==
  IF find_all(table.kids, {"thead"}) # <<>> THEN Len(TheadCells(table))
  ELSE header_cells

\* lines 589-598: the header row and the separator row
HeaderRows(table) ==
  IF TheadCells(table) # <<>>
  THEN <<RowText(CellTexts(TheadCells(table))), SeparatorRow(Len(TheadCells(table)))>>
  ELSE <<>>

\* lines 620-653: the rows found so far, or those of lines 621-652 when
\* there are none
RowsOrPlain(table, markdown_table) ==
  IF markdown_table # <<>> THEN markdown_table
  ELSE PlainRows(find_all(table.kids, {"tr"}), 0)

\* lines 600-618: the rows of the first tbody added, given what header_cells
\* holds
WithBody(table, tbody, bound) ==
  IF tbody = <<>> THEN HeaderRows(table)
  ELSE HeaderRows(table)
       \o BodyRows(find_all(Head(tbody).kids, {"tr"}), IF bound > 0 THEN bound ELSE None)

\* lines 585-653 for one table: markdown_table, the value header_cells has
\* afterwards (the number of cells) and whether line 602 read it unbound
TableMarkdownBound(table, tbody, bound) ==
  IF tbody # <<>> /\ bound = Unbound
  THEN [raised |-> TRUE, rows |-> <<>>, header_cells |-> bound]
  ELSE [raised |-> FALSE, rows |-> RowsOrPlain(table, WithBody(table, tbody, bound)),
        header_cells |-> bound]

TableMarkdown(table, header_cells) ==
  TableMarkdownBound(table, find_all(table.kids, {"tbody"}),
                     HeaderCellsAfter(table, header_cells))

\* lines 654-656: the table replaced by its Markdown when it has rows
Replaced(node, t) ==
  [raised |-> t.raised,
   nodes |-> IF t.rows # <<>>
             THEN <<Text(<<"\n">> \o join(t.rows, <<"\n">>) \o <<"\n">>)>>
             ELSE <<node>>,
   header_cells |-> t.header_cells]

\* an element that is no table, with the tables inside it replaced
Inside(node, k) ==
  [raised |-> k.raised, nodes |-> <<[node EXCEPT !.kids = k.nodes]>>,
   header_cells |-> k.header_cells]

\* the nodes that follow put after the first one
Followed(first, rest) ==
  [raised |-> rest.raised, nodes |-> first.nodes \o rest.nodes,
   header_cells |-> rest.header_cells]

\* HtmlProcessor._process_tables: the tables replaced, in document order, by
\* their Markdown; header_cells is carried from one table to the next, and
\* an exception ends the loop
RECURSIVE _process_tables(_, _)
ThenRest(first, rest_nodes) ==
  IF first.raised THEN first
  ELSE Followed(first, _process_tables(rest_nodes, first.header_cells))

_process_tables(nodes, header_cells) ==
  IF nodes = <<>> THEN [raised |-> FALSE, nodes |-> <<>>, header_cells |-> header_cells]
  ELSE IF Head(nodes).tag = "table"
  THEN ThenRest(Replaced(Head(nodes), TableMarkdown(Head(nodes), header_cells)),
                Tail(nodes))
  ELSE ThenRest(Inside(Head(nodes), _process_tables(Head(nodes).kids, header_cells)),
                Tail(nodes))

\* '#' * i for the heading tags
HeadingMark(tag) ==
  CASE tag = "h1" -> "#"
    [] tag = "h2" -> "##"
    [] tag = "h3" -> "###"
    [] tag = "h4" -> "####"
    [] tag = "h5" -> "#####"
    [] OTHER -> "######"
HeadingTags == {"h1", "h2", "h3", "h4", "h5", "h6"}
HeadingMarks == {HeadingMark(tag) : tag \in HeadingTags}

\* HtmlProcessor._process_headings
RECURSIVE _process_headings(_)
_process_headings(nodes) ==
  IF nodes = <<>> THEN <<>>
  ELSE LET node == Head(nodes)
           heading_text == strip(_get_inline_text(node.kids)) IN
       <<IF node.tag \in HeadingTags /\ heading_text # <<>>
         THEN Text(<<HeadingMark(node.tag), " ">> \o heading_text)
         ELSE [node EXCEPT !.kids = _process_headings(node.kids)]>>
       \o _process_headings(Tail(nodes))

\* lines 369-389: the target written between the parentheses is the href
LinkTarget(href, url) == UrlText(href)

\* HtmlProcessor._process_links
RECURSIVE _process_links(_, _, _)
_process_links(nodes, config, url) ==
  IF nodes = <<>> THEN <<>>
  ELSE LET node == Head(nodes)
           inline == strip(_get_inline_text(node.kids))
           href == node.href[1]
           link_text == IF inline # <<>> THEN inline ELSE UrlText(href) IN
       <<IF node.tag = "a" /\ node.href # <<>>
         THEN IF should_skip_link(config, href) THEN Text(link_text)
              ELSE Text(<<"[">> \o link_text \o <<"](">> \o LinkTarget(href, url)
                        \o <<")">>)
         ELSE [node EXCEPT !.kids = _process_links(node.kids, config, url)]>>
       \o _process_links(Tail(nodes), config, url)

\* lines 191-198, given the result of _process_tables
ConvertedFrom(tables, config, url) ==
  [raised |-> tables.raised,
   markdown |-> IF tables.raised THEN <<>>
                ELSE IF config.ignore_links
                THEN _build_markdown_from_tree(_process_headings(tables.nodes))
                ELSE _build_markdown_from_tree(
                       _process_links(_process_headings(tables.nodes), config, url))]

\* HtmlProcessor._convert_to_markdown, lines 186-198.  The documents of the
\* model hold no code, list, blockquote, rule, image or emphasis element, so
\* the steps that rewrite those leave the tree as it is.
_convert_to_markdown(nodes, config, url) ==
  ConvertedFrom(_process_tables(nodes, Unbound), config, url)

\* lines 291-301: a line that stands as a paragraph of its own.  The lines
\* of the model start with a heading mark or "|" when they are special; none
\* starts with a list mark, a fence or "> ".
is_special(stripped) ==
  \/ Head(stripped) \in HeadingMarks
  \/ Head(stripped) = "|"
  \/ stripped = <<"---">>

\* lines 289-317: the loop over the lines; the result is paragraphs
RECURSIVE Paragraphs(_, _)
Paragraphs(lines, current_paragraph) ==
  LET flushed == IF current_paragraph # <<>>
                 THEN <<join(current_paragraph, <<" ">>)>> ELSE <<>> IN
  IF lines = <<>> THEN flushed
  ELSE LET stripped == strip(Head(lines)) IN
       IF stripped = <<>>
       THEN flushed \o << <<>> >> \o Paragraphs(Tail(lines), <<>>)
       ELSE IF is_special(stripped)
       THEN flushed \o <<stripped>> \o Paragraphs(Tail(lines), <<>>)
       ELSE Paragraphs(Tail(lines), Append(current_paragraph, stripped))

\* HtmlProcessor._post_process_markdown.  The substitutions of lines 269-284
\* other than that of line 273 look for an empty link or image, a list mark
\* or a code fence, which the Markdown of the model's documents does not
\* hold, or add blank lines in front of a heading line, which lines 289-319
\* take out again.
_post_process_markdown(markdown) ==
  LET paragraphs == Paragraphs(split(CollapseNewlines(markdown), "\n"), <<>>) IN
  strip(join(SelectSeq(paragraphs, LAMBDA p : p # <<>>), <<"\n", "\n">>))

\* soup.title.string.strip() if soup.title and soup.title.string else 'Untitled Page'
TitleOf(page) ==
  IF page.title # <<>> THEN strip(page.title) ELSE <<"Untitled", " ", "Page">>

\* the places where sep starts in str
Occurrences(str, sep) ==
  {i \in 1..(Len(str) - Len(sep) + 1) : SubSeq(str, i, i + Len(sep) - 1) = sep}

\* str.split(sep)[0].strip() for a separator that occurs in str
FirstPiece(str, sep) ==
  LET i == CHOOSE k \in Occurrences(str, sep) : \A j \in Occurrences(str, sep) : k <= j IN
  strip(SubSeq(str, 1, i - 1))

\* lines 122-126
ShortTitle(page) ==
  LET title == TitleOf(page) IN
  IF Occurrences(title, <<" ", "|", " ">>) # {} THEN FirstPiece(title, <<" ", "|", " ">>)
  ELSE IF Occurrences(title, <<" ", "-", " ">>) # {} THEN FirstPiece(title, <<" ", "-", " ">>)
  ELSE title

\* soup.get_text('\n', strip=True) without the joining: the strings of the
\* nodes, stripped, the empty ones left out
RECURSIVE StrippedStrings(_)
StrippedStrings(nodes) ==
  IF nodes = <<>> THEN <<>>
  ELSE LET node == Head(nodes) IN
       (IF node.tag = "#text"
        THEN (IF strip(node.text) # <<>> THEN <<strip(node.text)>> ELSE <<>>)
        ELSE StrippedStrings(node.kids))
       \o StrippedStrings(Tail(nodes))

\* what the parsing library does during a call: nothing unusual, an exception
\* (such as RecursionError on deeply nested markup) inside the structured
\* conversion, or one inside the fallback conversion as well
Faults == {"none", "pipeline", "both"}

ErrorText ==
  <<"#", " ", "Error", " ", "Converting", " ", "Page", "\n", "\n",
    "There was an error converting this page to Markdown.">>

\* HtmlProcessor._simple_html_to_markdown, lines 334-349; the title is one of
\* the strings of the document
_simple_html_to_markdown(page, fault) ==
  IF fault = "both" THEN ErrorText
  ELSE LET strings == (IF strip(page.title) # <<>> THEN <<strip(page.title)>> ELSE <<>>)
                      \o StrippedStrings(Decompose(page.top, {"script", "style"}))
           text == CollapseSpaces(CollapseNewlines(join(strings, <<"\n">>))) IN
       <<"#", " ">> \o TitleOf(page) \o <<"\n", "\n">> \o text

\* lines 81-115: soup.find('main'), soup.find('article'), then soup.body; the
\* elements of the model carry no class, id or role.  The result is <<>> when
\* nothing is found and <<element>> otherwise.
MainContent(page, nodes) ==
  IF find_all(nodes, {"main"}) # <<>> THEN <<Head(find_all(nodes, {"main"}))>>
  ELSE IF find_all(nodes, {"article"}) # <<>> THEN <<Head(find_all(nodes, {"article"}))>>
  ELSE IF page.has_body THEN <<Elem("body", nodes)>>
  ELSE <<>>

\* lines 133-134: the title put first when the Markdown has no H1 at its start
WithTitle(page, markdown_content) ==
  IF startswith(markdown_content, <<"#", " ">>) THEN markdown_content
  ELSE <<"#", " ">> \o ShortTitle(page) \o <<"\n", "\n">> \o markdown_content

\* lines 128-141, given the result of _convert_to_markdown
Finished(config, page, converted) ==
  IF converted.raised THEN [config |-> config, raised |-> TRUE, markdown |-> <<>>]
  ELSE [config |-> config, raised |-> FALSE,
        markdown |-> _post_process_markdown(WithTitle(page, converted.markdown))]

\* lines 117-141, given main_content
FromMainContent(config, page, url, main_content) ==
  IF main_content = <<>>
  THEN [config |-> config, raised |-> FALSE,
        markdown |-> <<"#", " ">> \o TitleOf(page) \o <<"\n", "\n">>
                     \o <<"No main content could be extracted from this page.">>]
  ELSE Finished(config, page, _convert_to_markdown(main_content, config, url))

\* lines 71-141, after the assignment of lines 68-69
Parsed(config, page, url, fault) ==
  IF fault # "none" THEN [config |-> config, raised |-> TRUE, markdown |-> <<>>]
  ELSE FromMainContent(config, page, url,
                       MainContent(page, Decompose(page.top, ELEMENTS_TO_REMOVE)))

\* lines 68-141, the body of the try: the config afterwards, whether an
\* exception left the block, and the value returned when none did
Structured(config, page, url, fault) ==
  IF config.base_url = <<>>
  THEN Parsed([config EXCEPT !.base_url = <<url>>], page, url, fault)
  ELSE Parsed(config, page, url, fault)

\* lines 143-145 with an except clause that lets the exception go on to the
\* caller
Reraised(tried, page, fault) ==
  [config |-> tried.config, fell_back |-> tried.raised, raised |-> tried.raised,
   markdown |-> tried.markdown]

\* lines 143-145: the fallback conversion is returned when the try block raised
Handled(tried, page, fault) ==
  [config |-> tried.config, fell_back |-> tried.raised, raised |-> FALSE,
   markdown |-> IF tried.raised THEN _simple_html_to_markdown(page, fault)
                ELSE tried.markdown]

\* HtmlProcessor.extract_text(html_content, url), lines 67-145
extract_text(config, page, url, fault) ==
  Handled(Structured(config, page, url, fault), page, fault)

\* The URLs pages are fetched from
RootUrl == Url("https", "e.com", <<"/">>, "")
BaseUrl == Url("https", "e.com", <<"/", "base", "/">>, "")
OtherUrl == Url("https", "o.com", <<"/">>, "")
FetchedUrls == {RootUrl, BaseUrl, OtherUrl}

\* <html><head><title>T</title></head><body><main><h1>H</h1>
\* <p>Hi <a href="/x">x</a></p></main></body></html>
ExamplePage ==
  Page(<<"T">>, TRUE,
       <<Elem("main",
              <<Elem("h1", <<Text(<<"H">>)>>),
                Elem("p", <<Text(<<"Hi", " ">>),
                            Anchor(Url("", "", <<"/", "x">>, ""), <<Text(<<"x">>)>>)>>)>>)>>)

\* a page of links: fragment-only, with a fragment, script, mail and phone
\* targets in both spellings, relative, absolute and above the directory
LinksPage ==
  Page(<<"L">>, TRUE,
       <<Elem("p",
              <<Anchor(Url("", "", <<>>, "x"), <<Text(<<"top">>)>>),
                Anchor(Url("", "", <<"/", "p">>, "frag"), <<Text(<<"p">>)>>),
                Anchor(Url("javascript", "", <<"x">>, ""), <<Text(<<"js">>)>>),
                Anchor(Url("JavaScript", "", <<"x">>, ""), <<Text(<<"JS">>)>>),
                Anchor(Url("mailto", "", <<"a">>, ""), <<Text(<<"mail">>)>>),
                Anchor(Url("MAILTO", "", <<"a">>, ""), <<Text(<<"MAIL">>)>>),
                Anchor(Url("tel", "", <<"1">>, ""), <<Text(<<"tel">>)>>),
                Anchor(Url("", "", <<"p">>, ""), <<>>),
                Anchor(Url("https", "o.com", <<"/", "z">>, "k"), <<Text(<<"z">>)>>),
                Anchor(Url("", "", <<"..", "/", "q">>, ""), <<Text(<<"q">>)>>),
                Elem("a", <<Text(<<"nowhere">>)>>)>>)>>)

\* a page with a link to the site e.com, one to another site, and one
\* relative to the root
MixedPage ==
  Page(<<"M", " ", "-", " ", "Site">>, TRUE,
       <<Elem("p", <<Anchor(Url("https", "e.com", <<"/", "a">>, ""), <<Text(<<"in">>)>>),
                     Text(<<" ", "and", " ">>),
                     Anchor(Url("https", "o.com", <<"/", "z">>, ""), <<Text(<<"out">>)>>),
                     Elem("br", <<>>),
                     Anchor(Url("", "", <<"/", "x">>, ""), <<Text(<<"x">>)>>)>>)>>)

Cell(tag, tokens) == Elem(tag, <<Text(tokens)>>)
Row(cells) == Elem("tr", cells)

\* two header cells; data rows of one, two and three cells
HeadedTable ==
  Elem("table",
       <<Elem("thead", <<Row(<<Cell("th", <<"a">>), Cell("th", <<"b">>)>>)>>),
         Elem("tbody", <<Row(<<Cell("td", <<"1">>)>>),
                         Row(<<Cell("td", <<"1">>), Cell("td", <<"2">>)>>),
                         Row(<<Cell("td", <<"1">>), Cell("td", <<"2">>),
                               Cell("td", <<"3">>)>>)>>)>>)

\* a body and no head
BodyOnlyTable ==
  Elem("table",
       <<Elem("tbody", <<Row(<<Cell("td", <<"1">>), Cell("td", <<"2">>),
                               Cell("td", <<"3">>)>>),
                         Row(<<Cell("td", <<"4">>)>>)>>)>>)

\* rows directly in the table
PlainTable ==
  Elem("table",
       <<Row(<<Cell("th", <<"a">>), Cell("th", <<"b">>)>>),
         Row(<<>>),
         Row(<<Cell("td", <<"x", "|", "y">>)>>)>>)

HeadedTablePage == Page(<<"T">>, TRUE, <<Elem("h2", <<Text(<<"Tab">>)>>), HeadedTable>>)
BodyOnlyTablePage == Page(<<"T">>, TRUE, <<BodyOnlyTable, Elem("script", <<Text(<<"s">>)>>)>>)
TwoTablesPage == Page(<<>>, TRUE, <<HeadedTable, Elem("p", <<Text(<<"then">>)>>), BodyOnlyTable>>)
PlainTablePage == Page(<<"T">>, TRUE, <<Elem("div", <<PlainTable>>)>>)

\* no <body>, no <title>
LoosePage == Page(<<>>, FALSE, <<Text(<<"loose", " ", " ", "text">>)>>)

\* navigation, an article and a script
ArticlePage ==
  Page(<<"A", " ", "|", " ", "Site">>, TRUE,
       <<Elem("nav", <<Anchor(Url("", "", <<"/", "n">>, ""), <<Text(<<"menu">>)>>)>>),
         Elem("article", <<Elem("p", <<Text(<<"one">>)>>),
                           Elem("h3", <<Text(<<"Sub">>)>>),
                           Elem("p", <<Text(<<"two", "\n", "three">>)>>)>>),
         Elem("script", <<Text(<<"s">>)>>)>>)

Pages == {ExamplePage, LinksPage, MixedPage, HeadedTablePage, BodyOnlyTablePage,
          TwoTablesPage, PlainTablePage, LoosePage, ArticlePage}

HtmlConfigs ==
  {HtmlProcessorConfig(base_url, skip_internal_links, ignore_links) :
     base_url \in {<<>>, <<RootUrl>>},
     skip_internal_links \in BOOLEAN, ignore_links \in BOOLEAN}

\* HtmlProcessor(config)
InitHtml ==
  /\ CrawlerIdle
  /\ RetryIdle
  /\ RateIdle
  /\ RobotsIdle
  /\ SitemapIdle
  /\ ConstructIdle
  /\ StorageIdle
  /\ html_processor \in {[config |-> config] : config \in HtmlConfigs}
  /\ html_call = NoConversion

html_frame == <<cfg, site, frontier, stats, politeness, now, pc, locals, iter,
                history, retry_unit, rate_unit, robots_unit, sitemap_unit,
                construct_unit, storage_unit>>

\* the state after a call of extract_text that returned result
Converted(page, url, fault, result) ==
  /\ html_processor' = [html_processor EXCEPT !.config = result.config]
  /\ html_call' = [op |-> "extract_text", calls |-> html_call.calls + 1,
                   page |-> page, url |-> url, fault |-> fault,
                   before |-> html_processor.config,
                   fell_back |-> result.fell_back, raised |-> result.raised,
                   markdown |-> result.markdown]

\* one call of extract_text on the processor
ExtractText ==
  /\ html_call.calls < MaxConversions
  /\ \E page \in Pages, url \in FetchedUrls, fault \in Faults :
       Converted(page, url, fault, extract_text(html_processor.config, page, url, fault))
  /\ UNCHANGED html_frame

\* one call of the static extract_links
StaticExtractLinks ==
  /\ html_call.calls < MaxConversions
  /\ \E page \in Pages, url \in FetchedUrls, f \in UrlPredicates :
       html_call' = [op |-> "extract_links", calls |-> html_call.calls + 1,
                     page |-> page, url |-> url, f |-> f,
                     links |-> HtmlExtractLinks(page, url, f)]
  /\ UNCHANGED <<html_processor, html_frame>>

\* the element lists _build_markdown_from_tree is called on: the top of a
\* document and the children of the containers inside it
Trees ==
  UNION {{page.top} \cup {e.kids : e \in Range(find_all(page.top, {"main", "article", "div"}))} :
           page \in Pages}

\* one call of _build_markdown_from_tree on a tree as parsed, or on the tree
\* left by _process_headings as in _convert_to_markdown (line 191)
BuildTree ==
  /\ html_call.calls < MaxConversions
  /\ \E nodes \in Trees, headings_processed \in BOOLEAN :
       html_call' = [op |-> "build_tree", calls |-> html_call.calls + 1,
                     nodes |-> nodes, headings_processed |-> headings_processed,
                     markdown |-> IF headings_processed
                                  THEN _build_markdown_from_tree(_process_headings(nodes))
                                  ELSE _build_markdown_from_tree(nodes)]
  /\ UNCHANGED <<html_processor, html_frame>>

NextHtml == ExtractText \/ StaticExtractLinks \/ BuildTree

SpecHtml == InitHtml /\ [][NextHtml]_vars

(***************************************************************************)
(* Properties.                                                             *)
(***************************************************************************)
NoDuplicates(q) == \A i, j \in 1..Len(q) : q[i] = q[j] => i = j

\* s can be obtained from t by deleting elements
RECURSIVE IsSubseq(_, _)
IsSubseq(s, t) ==
  IF s = <<>> THEN TRUE
  ELSE IF t = <<>> THEN FALSE
  ELSE IF Head(s) = Head(t) THEN IsSubseq(Tail(s), Tail(t))
  ELSE IsSubseq(s, Tail(t))

FetchingPcs == {"rate", "mark", "fetch", "store", "page_cb", "links", "err_cb", "sleep"}

\* C1: no URL is both in visited_urls and in urls_in_queue, in any state of
\* construction and crawl(); a URL enters visited_urls only after it left
\* urls_in_queue, and a URL enters urls_in_queue only if it is in neither set.
C1_Dedup ==
  /\ [](visited_urls \cap urls_in_queue = {})
  /\ [][/\ \A u \in visited_urls' \ visited_urls :
               u = current_url /\ u \notin urls_in_queue
        /\ \A u \in urls_in_queue' \ urls_in_queue :
               u \notin visited_urls /\ u \notin urls_in_queue]_vars

\* C1 witness: a page was fetched and its links wait in the frontier
C1_Witness ==
  /\ visited_urls # {}
  /\ urls_in_queue # {}
  /\ Len(dequeueLog) >= 2
  /\ iter.enqueued

\* C2: URLs leave the frontier in the order they were appended to it, fetches
\* happen in dequeue order, and on the site A -> [B, C], B -> [D] the fetch
\* order follows A, B, C, D (D never before C).
C2_Fifo ==
  /\ appendLog = dequeueLog \o urls_to_visit
  /\ IsSubseq(fetchLog, dequeueLog)
  /\ (site = ExampleSite /\ cfg.start_url = "A")
       => IsSubseq(fetchLog, <<"A", "B", "C", "D">>)

\* C2 witness: the example site was crawled completely
C2_Witness ==
  /\ site = ExampleSite
  /\ fetchLog = <<"A", "B", "C", "D">>

\* C3: no URL is passed to the fetcher twice; a URL is in visited_urls when its
\* fetch is issued and from then on, whatever the outcome; visited_urls never
\* loses an element.
C3_FetchOnce ==
  /\ [](/\ NoDuplicates(fetchLog)
        /\ Range(fetchLog) \subseteq visited_urls
        /\ visited_urls \ Range(fetchLog) \subseteq {current_url}
        /\ pc = "fetch" => current_url \in visited_urls)
  /\ [][visited_urls \subseteq visited_urls']_vars

\* C3 witness: after a failed fetch, a later page links back to a visited URL
C3_Witness ==
  /\ pc = "sleep"
  /\ iter.enqueued
  /\ stats.pages_failed >= 1
  /\ Len(fetchLog) >= 2
  /\ \E i \in 1..Len(site[current_url]) : site[current_url][i] \in visited_urls

\* C4: with max_pages > 0 no URL is dequeued or fetched once pages_processed
\* has reached max_pages, so pages_processed <= max_pages; with max_pages = 0
\* the cap never ends the loop.
C4_PageCap ==
  /\ cfg.max_pages > 0 => stats.pages_processed <= cfg.max_pages
  /\ (cfg.max_pages > 0 /\ pc \in {"robots", "rate", "mark", "fetch"})
       => stats.pages_processed < cfg.max_pages
  /\ cfg.max_pages = 0 => cause # "cap"

\* C4 witness: the cap stopped the crawl with URLs left in the frontier
C4_Witness ==
  /\ cause = "cap"
  /\ urls_to_visit # <<>>
  /\ stats.pages_processed = cfg.max_pages

\* C5: an iteration whose can_fetch answered False goes back to the top of the
\* loop with visited_urls, the counters, the fetch log and the callbacks'
\* record unchanged; every later step of an iteration (rate limiting, marking,
\* fetching, processing, error callback) happens after can_fetch answered True.
C5_RobotsSkip ==
  /\ [](pc \in FetchingPcs => allowed)
  /\ [][(pc = "robots" /\ pc' \in LoopPcs /\ ~allowed')
          => /\ pc' = "loop"
             /\ UNCHANGED <<visited_urls, stats, fetchLog, iter>>]_vars

\* C5 witness: a URL that a rule of a parsed robots.txt disallows was skipped
C5_Witness ==
  /\ pc = "loop"
  /\ dequeueLog # <<>>
  /\ current_url = dequeueLog[Len(dequeueLog)]
  /\ current_url \notin visited_urls
  /\ ~allowed
  /\ _get_domain(current_url) \in DOMAIN robots.parsers
  /\ robots.parsers[_get_domain(current_url)].last_checked
  /\ fetchLog # <<>>

\* C6: when the robots.txt request of a domain raised or was answered 401 or
\* 403, the cached rule set allows every URL of that domain.
C6_PermissiveFallback ==
  \A d \in DOMAIN robots.parsers :
    (d \in DOMAIN robots_replies
       /\ (robots_replies[d].raises
             \/ robots_replies[d].status \in {HTTP_UNAUTHORIZED, HTTP_FORBIDDEN}))
    => \A u \in URLS : _get_domain(u) = d => parser_can_fetch(robots.parsers[d], u)

\* a step leaves the loop for one of the reasons crawl() provides
LegitimateExit ==
  \/ pc = "loop" /\ pc' = "final_stats"
       /\ (urls_to_visit = <<>> \/ PageCapReached(cfg.max_pages, stats.pages_processed))
  \/ cause' = "interrupt"
  \/ cause' = "unexpected" /\ pc \in {"rate", "sleep"}

\* C7: a step that counts a page failure (non-200 response, exception of the
\* fetch, storage or link extraction error) stays inside the loop, and the loop
\* is only left because the frontier is empty, the cap is reached, an interrupt
\* arrived or an exception was raised outside the per-page try block.
C7_FailuresNeverAbort ==
  [][/\ stats'.pages_failed > stats.pages_failed => pc' \in {"err_cb", "sleep"}
     /\ (pc \in LoopPcs /\ pc' \notin LoopPcs) => LegitimateExit]_vars

\* C7 witness: a page is being processed after two earlier pages failed, one of
\* them by an exception that is not a RequestException
C7_Witness ==
  /\ pc = "store"
  /\ stats.pages_failed >= 2
  /\ stats.pages_processed = 0

\* C8: at the end of an iteration with an error callback set, on_error was
\* called exactly once, with the current URL, for every failure the iteration
\* counted in pages_failed.
C8_ErrorCallbackPerFailure ==
  (pc = "sleep" /\ cfg.on_error)
    => iter.error_calls = [i \in 1..iter.failed |-> current_url]

\* C9: the step that calls a callback leaves the counters alone and goes on
\* (to link extraction after on_page_crawled, to the sleep after on_error)
\* whether or not the callback raised; only an interrupt leaves the loop there;
\* without a callback nothing is called.
C9_CallbacksBestEffort ==
  /\ [][/\ (pc = "page_cb" /\ pc' \in LoopPcs) => (pc' = "links" /\ stats' = stats)
        /\ (pc = "err_cb" /\ pc' \in LoopPcs) => (pc' = "sleep" /\ stats' = stats)
        /\ (pc \in {"page_cb", "err_cb"} /\ pc' \notin LoopPcs) => cause' = "interrupt"]_vars
  /\ [](~cfg.on_page_crawled => iter.page_calls = <<>>)
  /\ [](~cfg.on_error => iter.error_calls = <<>>)

\* C9 witness: the page callback raised and the page's links were enqueued
C9_Witness ==
  /\ pc = "sleep"
  /\ iter.raised
  /\ iter.page_calls # <<>>
  /\ iter.enqueued
  /\ \E i \in 1..Len(site[current_url]) : site[current_url][i] \in urls_in_queue

ListedCauses == {"exhausted", "cap", "interrupt", "unexpected"}

\* C10: when the loop ends because the frontier is empty, the cap is reached,
\* an interrupt arrives inside the loop or an exception escapes the per-page
\* try block, crawl() returns after exactly one _log_stats(final=True) and does
\* not raise.
C10_FinalStatsOnce ==
  /\ cause \in ListedCauses => pc \in {"final_stats", "handler_int", "handler_exc", "done"}
  /\ (cause \in ListedCauses /\ pc = "done") => finalStats = 1
  /\ (cause \in ListedCauses \cup {"none"} /\ pc # "done") => finalStats = 0

\* C10 witness: crawl() returned after an interrupt that arrived between
\* marking a URL visited and fetching it
C10_Witness ==
  /\ pc = "done"
  /\ cause = "interrupt"
  /\ finalStats = 1
  /\ visited_urls # Range(fetchLog)

(***************************************************************************)
(* The retry policy and the size guard (one fetch on its own, SpecRetry).  *)
(***************************************************************************)
\* the server's answer to a request stays within self.max_content_length
WithinLimit(reply) ==
  /\ ~(IsNumeric(reply.declared) /\ reply.declared > limit)
  /\ SumSeq(reply.body) <= limit

\* the server answers the i-th request with a complete response whose status
\* is one of `statuses'
Answers(i, statuses) ==
  LET reply == ReplyAt(served, i) IN
  reply.fail = "none" /\ reply.status \in statuses /\ WithinLimit(reply)

\* the result of the last attempt made so far
LastResult == wrapper.results[Len(wrapper.results)]

\* C11: when the server answers with k retryable responses (0 <= k <= 3) and
\* then a 200, the fetch makes exactly k + 1 requests and returns the 200
\* response; it never raises and never returns one of the k earlier responses.
C11_RetrySuccess ==
  \A k \in 0..MaxRetries :
    (/\ Len(served) = k + 1
     /\ \A i \in 1..k : Answers(i, RetryStatusCodes)
     /\ Answers(k + 1, {HTTP_OK}))
    => /\ Len(wrapper.results) <= k + 1
       /\ wrapper.pc # "raised"
       /\ wrapper.pc = "returned"
            => /\ Len(wrapper.results) = k + 1
               /\ LastResult.kind = "response"
               /\ LastResult.status = HTTP_OK
               /\ Len(wrapper.slept) = k

\* C11 witness: a 200 returned by the fourth request, after three retryable
\* responses, one of them a 429
C11_Witness ==
  /\ wrapper.pc = "returned"
  /\ Len(served) = MaxRetries + 1
  /\ \A i \in 1..MaxRetries : Answers(i, RetryStatusCodes)
  /\ \E i \in 1..MaxRetries : served[i].status = 429
  /\ Len(wrapper.results) = MaxRetries + 1
  /\ LastResult.status = HTTP_OK

\* an attempt that ended in a retryable status or a network/timeout exception
FailedAttempt(result) ==
  \/ result.kind = "response" /\ result.status \in RetryStatusCodes
  \/ result.kind = "raise" /\ result.exc = "RequestException"

\* C12: a fetch makes at most 4 requests, and when all 4 attempts ended in a
\* retryable status or a network/timeout exception it raises a request failure
\* and returns no response.
C12_RetryExhaustion ==
  /\ Len(wrapper.results) <= MaxRetries + 1
  /\ (/\ FetchEnded
      /\ Len(wrapper.results) = MaxRetries + 1
      /\ \A i \in 1..(MaxRetries + 1) : FailedAttempt(wrapper.results[i]))
     => /\ wrapper.pc = "raised"
        /\ LastResult.exc = "RequestException"

\* C13: an attempt on which the size guard raised ContentTooLargeError is the
\* last attempt of the fetch: the fetch raises, with no sleep and no request
\* after it.
C13_TooLargeIsFatal ==
  \A i \in 1..Len(wrapper.results) :
    wrapper.results[i].exc = "ContentTooLargeError"
      => /\ i = Len(wrapper.results)
         /\ wrapper.pc = "raised"
         /\ Len(wrapper.slept) = i - 1

\* the running totals of the streamed chunks
RunningTotals(body) == { SumSeq(SubSeq(body, 1, j)) : j \in 1..Len(body) }

\* C14: an attempt that got a response raises ContentTooLargeError exactly when
\* the numeric Content-Length or a running total of the streamed chunks exceeds
\* max_content_length; then the response was closed and nothing of the body is
\* returned; a complete body of exactly max_content_length bytes is returned
\* whole.
C14_SizeGuard ==
  \A i \in 1..Len(wrapper.results) :
    LET reply == ReplyAt(served, i)
        result == wrapper.results[i] IN
    reply.fail # "connect"
      => /\ (result.exc = "ContentTooLargeError")
              <=> \/ IsNumeric(reply.declared) /\ reply.declared > limit
                  \/ \E total \in RunningTotals(reply.body) : total > limit
         /\ result.exc = "ContentTooLargeError"
              => result.kind = "raise" /\ result.closed /\ result.size = 0
         /\ (reply.fail = "none" /\ SumSeq(reply.body) = limit
               /\ ~(IsNumeric(reply.declared) /\ reply.declared > limit))
              => result.kind = "response" /\ result.size = limit

\* C14 witness: the guard tripped on the second chunk of a body whose
\* Content-Length under-reports
C14_Witness ==
  /\ Len(wrapper.results) >= 1
  /\ wrapper.results[1].exc = "ContentTooLargeError"
  /\ served[1].declared = 0
  /\ Len(served[1].body) = 2
  /\ served[1].body[1] <= limit

\* the attempts made so far that were followed by a sleep: all but the last
\* one once the fetch has ended, all of them while it runs
Retried == 1..Len(wrapper.slept)

\* C15: the k-th sleep of a fetch lasts min(1 * 2^(k-1), 60) seconds when no
\* retried response carried a numeric Retry-After, whether the attempts failed
\* by status or by exception; after a response with a numeric Retry-After the
\* sleep lasts that value.
C15_BackoffSchedule ==
  /\ Len(wrapper.slept) <= MaxRetries
  /\ (\A i \in Retried : ~(wrapper.results[i].kind = "response"
                            /\ IsNumeric(wrapper.results[i].retry_after)))
       => \A k \in Retried : wrapper.slept[k] = Min(InitialDelay * BackoffFactor^(k - 1),
                                                    MaxBackoff)
  /\ \A k \in Retried :
       (wrapper.results[k].kind = "response" /\ IsNumeric(wrapper.results[k].retry_after))
         => wrapper.slept[k] = wrapper.results[k].retry_after

\* C15 witness: three sleeps of 1, 2 and 4 seconds after a failed connection,
\* a 503 and a 500 whose Retry-After is not a number
C15_Witness ==
  /\ wrapper.slept = <<1, 2, 4>>
  /\ wrapper.results[1].kind = "raise"
  /\ wrapper.results[2].status = 503
  /\ wrapper.results[3].status = 500

(***************************************************************************)
(* The rate limiter (SpecRate).                                            *)
(***************************************************************************)
\* no other thread is inside wait_if_needed
CalledSequentially(t) == \A u \in Threads \ {t} : callers[u].pc = "idle"

\* thread t holds the lock: it has read the clock and not yet returned
InCritical(t) == callers[t].pc \in {"sleep", "update"}

\* C16: for a call of wait_if_needed made while no other call is in progress:
\* the first call for a key does not sleep; a later call made at time t, the
\* key's last request being at L, sleeps max(0, delay - (t - L)) seconds whatever
\* the other keys' last requests are; and it returns at least delay seconds after
\* the previous return for its key.
C16_SequentialWait ==
  [][\A t \in Threads :
       LET key == KeyOf(callers[t].domain) IN
       /\ (callers[t].pc = "acquire" /\ callers'[t].pc # "acquire" /\ CalledSequentially(t))
            => /\ key \notin DOMAIN returns
                    => callers'[t].pc = "update" /\ callers'[t].wait_time = 0
               /\ key \in DOMAIN returns
                    => callers'[t].wait_time
                         = Max(0, rate_limiter.delay - (now - returns[key].time))
               /\ (callers'[t].pc = "sleep") <=> (callers'[t].wait_time > 0)
       /\ (callers[t].pc = "update" /\ callers'[t].pc = "idle" /\ CalledSequentially(t))
            => /\ now >= callers[t].started + callers[t].wait_time
               /\ key \in DOMAIN returns => now - returns[key].time >= rate_limiter.delay]_vars

\* C16 witness: a call on its own sleeps one second of a delay of two for its
\* key, although another key's request is more recent
C16_Witness ==
  \E t \in Threads :
    /\ callers[t].pc = "sleep"
    /\ CalledSequentially(t)
    /\ rate_limiter.delay = 2
    /\ callers[t].wait_time = 1
    /\ callers[t].key \in DOMAIN returns
    /\ \E k \in DOMAIN returns : k # callers[t].key /\ returns[k].time > returns[callers[t].key].time

\* C17: whatever the interleaving, at most one thread is between its read of
\* the clock and its update, that thread holds the lock and nobody else writes
\* last_request_time meanwhile; the recorded time of a key is the time of the
\* last return for it (no update is lost); and successive returns for a key are
\* at least delay seconds apart.
C17_ThreadSafe ==
  /\ [](\A t, u \in Threads : (t # u) => ~(InCritical(t) /\ InCritical(u)))
  /\ [](\A t \in Threads : InCritical(t) => rate_limiter.lock = t)
  /\ [](\A k \in DOMAIN returns :
          k \in DOMAIN last_request_time /\ last_request_time[k] = returns[k].time)
  /\ [][\A t \in Threads :
          /\ (InCritical(t) /\ InCritical(t)') => last_request_time' = last_request_time
          /\ (callers[t].pc = "update" /\ callers'[t].pc = "idle"
                /\ KeyOf(callers[t].domain) \in DOMAIN returns)
               => now - returns[KeyOf(callers[t].domain)].time >= rate_limiter.delay]_vars

\* C17 witness: a thread waits for the lock that another thread holds while it
\* sleeps for the same key, after an earlier return for that key
C17_Witness ==
  \E t, u \in Threads :
    /\ t # u
    /\ callers[t].pc = "sleep"
    /\ callers[u].pc = "acquire"
    /\ callers[u].key = callers[t].key
    /\ callers[t].key \in DOMAIN returns
    /\ returns[callers[t].key].thread = u

(***************************************************************************)
(* The robots.txt cache (SpecRobots).                                      *)
(***************************************************************************)
\* the robots.txt requests made for one domain
GetsOf(domain) == SelectSeq(robots_gets, LAMBDA g : g.domain = domain)

\* the domain has no entry, or its entry was stored 3600 seconds ago or earlier
Expired(domain) ==
  \/ domain \notin DOMAIN robots.cache_time
  \/ now - robots.cache_time[domain] >= DEFAULT_CACHE_DURATION

\* C18: the checker holds one entry per domain it was asked about; two
\* robots.txt requests for one domain are at least 3600 seconds apart, whatever
\* their outcome; a can_fetch or get_crawl_delay call made less than 3600
\* seconds after the domain's entry was stored makes no request and leaves the
\* cache alone; a call made later (or for a new domain) makes one request and
\* stores the entry anew.
C18_RobotsCache ==
  /\ [](/\ DOMAIN robots.parsers = DOMAIN robots.cache_time
        /\ DOMAIN robots.parsers = {robots_gets[i].domain : i \in 1..Len(robots_gets)})
  /\ [](\A i, j \in 1..Len(robots_gets) :
          (i < j /\ robots_gets[i].domain = robots_gets[j].domain)
            => robots_gets[j].time - robots_gets[i].time >= DEFAULT_CACHE_DURATION)
  /\ [][/\ robots_gets' # robots_gets => robots_call' # robots_call
        /\ robots_call' # robots_call
             => LET domain == _get_domain(robots_call'.url) IN
                IF Expired(domain)
                THEN /\ robots_gets' = Append(robots_gets, [domain |-> domain, time |-> now])
                     /\ robots'.cache_time[domain] = now'
                ELSE /\ robots_gets' = robots_gets
                     /\ robots' = robots
                     /\ now' = now]_vars

\* C18 witness: a domain's robots.txt was requested a second time exactly 3600
\* seconds after its entry was stored, the request raised, and a later
\* get_crawl_delay call used the entry stored then
C18_Witness ==
  \E domain \in DOMAIN robots.parsers :
    /\ Len(GetsOf(domain)) = 2
    /\ GetsOf(domain)[2].time = GetsOf(domain)[1].time + DEFAULT_CACHE_DURATION
    /\ robots_replies[domain].raises
    /\ robots_call.op = "get_crawl_delay"
    /\ _get_domain(robots_call.url) = domain
    /\ robots_call.at > GetsOf(domain)[2].time
    /\ Cardinality(DOMAIN robots.parsers) = 2

(***************************************************************************)
(* Sitemap resolution (SpecSitemap).                                       *)
(***************************************************************************)
\* the top-level fetch_urls has returned
SitemapReturned == sitemap_result.pc = "done"

\* the sitemap URLs whose request failed or whose XML is malformed
BrokenNodes ==
  { u \in SitemapNodes :
      sitemap_docs[u].kind \in {"fail", "malformed_index", "malformed_urlset"} }

\* the max_depth of the top-level call is larger than any chain of sitemaps
DepthNotBinding == sitemap_stack[1].max_depth - 1 > Cardinality(SitemapNodes)

\* C19: on every sitemap graph, cyclic ones included, fetch_urls returns; no
\* sitemap URL is requested twice in one resolution; the recursion is never
\* deeper than the number of distinct sitemap URLs; and a sitemap index that
\* lists only itself resolves to no URL after one request, without raising.
C19_SitemapTerminates ==
  /\ <>SitemapReturned
  /\ [](NoDuplicates(sitemap_gets))
  /\ [](Len(sitemap_stack) - 1 <= Cardinality(SitemapNodes))
  /\ [](sitemap_result.pc # "raised")
  /\ []((/\ SitemapReturned
         /\ sitemap_docs["M"].kind = "index"
         /\ Range(sitemap_docs["M"].locs) = {"M"})
        => sitemap_result.urls = {} /\ sitemap_gets = <<"M">>)

\* C19 witness: a resolution returned after going through a cycle of two
\* indexes (M lists M1, M1 lists M) and a third sitemap, with URLs found
C19_Witness ==
  /\ SitemapReturned
  /\ sitemap_docs["M"].kind = "index"
  /\ sitemap_docs["M1"].kind = "index"
  /\ "M1" \in Range(sitemap_docs["M"].locs)
  /\ "M" \in Range(sitemap_docs["M1"].locs)
  /\ Len(sitemap_gets) = 3
  /\ sitemap_result.urls # {}

\* C20: fetch_urls never raises; the step that requests a sitemap whose fetch
\* fails or whose XML is malformed adds no URL to any frame and returns to the
\* caller's loop; once the resolution has returned, every <loc> of every index
\* that was read has been requested (when max_depth does not cut the
\* recursion) and the URLs of every urlset that was read are in the result.
C20_SitemapErrorIsolation ==
  /\ [](sitemap_result.pc # "raised")
  /\ [][\A u \in BrokenNodes :
          sitemap_gets' = Append(sitemap_gets, u)
            => /\ Len(sitemap_stack') = Len(sitemap_stack)
               /\ \A i \in 1..Len(sitemap_stack) :
                    sitemap_stack'[i].urls = sitemap_stack[i].urls
               /\ Top'.locs = Tail(Top.locs)
               /\ sitemap_result' = sitemap_result]_vars
  /\ [](SitemapReturned
          => \A i \in 1..Len(sitemap_gets) :
               LET doc == sitemap_docs[sitemap_gets[i]] IN
               /\ doc.kind = "urlset" => Range(doc.locs) \subseteq sitemap_result.urls
               /\ (doc.kind = "index" /\ DepthNotBinding)
                    => Range(doc.locs) \subseteq Range(sitemap_gets))

\* C20 witness: under one index, a sitemap whose request failed is followed by
\* a urlset whose URLs were returned
C20_Witness ==
  /\ SitemapReturned
  /\ sitemap_docs["M"] = [kind |-> "index", locs |-> <<"M1", "M2">>]
  /\ sitemap_docs["M1"].kind = "fail"
  /\ sitemap_docs["M2"].kind = "urlset"
  /\ sitemap_gets = <<"M", "M1", "M2">>
  /\ sitemap_result.urls = Range(sitemap_docs["M2"].locs)

\* the constructor call has ended
Constructed == ctor.pc \in {"raised", "constructed"}

\* what the parameters are, read off the arguments
BadStartUrl ==
  \/ ctor_args.start_url.type # "str"
  \/ ctor_args.start_url.text = <<>>
  \/ Head(ctor_args.start_url.text) \notin {"http://", "https://"}
BadNumbers == ctor_args.delay < 0 \/ ctor_args.timeout <= 0 \/ ctor_args.max_pages < 0
EmptyOutputDir == ctor_args.output_dir \in {PyNone, PyStr(<<>>)}

C22_SingleFileFallback ==
  [][(pc = "store" /\ pc' \in {"page_cb", "sleep"} /\ cfg.single_file /\ response.html)
       => LET ops == iter'.storage
              append == StorageOp("append_file", <<DEFAULT_SINGLE_FILE_NAME>>,
                                  current_url, current_url, ops[1].ok)
              save == StorageOp("save_file", url_to_filepath(current_url, base_path),
                                "", current_url, ops[Len(ops)].ok)
              counted == /\ stats'.pages_processed = stats.pages_processed + 1
                         /\ stats'.pages_failed = stats.pages_failed
                         /\ pc' = "page_cb" IN
          /\ ops # <<>>
          /\ ops[1] = append
          /\ ops[1].ok => ops = <<append>> /\ counted
          /\ ~ops[1].ok => ops = <<append, save>> /\ (save.ok => counted)]_vars

\* an append has raised, the page was saved to its own file and counted
C22_Witness ==
  /\ pc = "page_cb"
  /\ cfg.single_file
  /\ Len(iter.storage) = 2
  /\ ~iter.storage[1].ok
  /\ iter.storage[2].ok
  /\ iter.storage[2].path = <<"b", ".md">>
  /\ stats.pages_processed = 2
  /\ stats.pages_failed = 0

\* the positions of an iteration after its fetch attempt
AfterFetchPcs == {"store", "page_cb", "links", "err_cb", "sleep"}

\* the Crawl-delay that the robots.txt last read for the current URL's host
\* declares (None when no file was read or it declares none)
DeclaredCrawlDelay ==
  LET domain == _get_domain(current_url) IN
  IF domain \notin DOMAIN robots_replies THEN None
  ELSE LET reply == robots_replies[domain] IN
       IF reply.raises \/ reply.status # HTTP_OK THEN None ELSE reply.file.delay

\* C23: after a fetch attempt, successful or failed, the loop reaches its next
\* iteration only through the sleep of the effective delay; the effective delay
\* is max(configured delay, crawl-delay) when robots.txt declares a crawl-delay
\* and the configured delay otherwise, and it is never below the configured
\* delay.
C23_PolitenessSleep ==
  /\ [][(pc \in AfterFetchPcs \cup {"fetch"} /\ pc' = "loop")
          => pc = "sleep" /\ now' = now + delay_to_use]_vars
  /\ [](pc \in AfterFetchPcs \cup {"mark", "fetch"}
          => /\ delay_to_use = IF DeclaredCrawlDelay # None
                               THEN Max(cfg.delay, DeclaredCrawlDelay)
                               ELSE cfg.delay
             /\ delay_to_use >= cfg.delay)

\* a failed fetch has been followed by the sleep of a configured delay that is
\* larger than the declared crawl-delay
C23_Witness ==
  /\ pc = "loop"
  /\ fetchLog = <<"A">>
  /\ response.kind = "raise"
  /\ cfg.delay = 3
  /\ DeclaredCrawlDelay = 2
  /\ delay_to_use = 3
  /\ now >= 3

\* C29: the path _sanitize_path returns has no ".." segment, none of its
\* segments keeps a reserved character, an empty result is index.md, and the
\* file that save_file / append_file writes lies inside the output directory.
C29_SanitizedPath ==
  storage_call.op # "" =>
    /\ storage_call.safe_path # <<>>
    /\ \A i \in 1..Len(storage_call.safe_path) :
         /\ storage_call.safe_path[i] # DotDot
         /\ Range(storage_call.safe_path[i]) \cap ReservedChars = {}
    /\ \A file \in storage : file.above = 0

\* the schemes of the targets extract_links is to pass over
UnfollowedSchemes == {"javascript", "mailto", "tel"}

\* C24: extract_links returns no javascript:, mailto: or tel: target and no
\* target of a fragment-only href; every URL it returns has no fragment, is
\* the resolution against the current URL of an href of the page, and is
\* accepted by the caller's predicate.
C24_ExtractedLinks ==
  html_call.op = "extract_links" =>
    \A i \in 1..Len(html_call.links) :
      LET link == html_call.links[i]
          a_tags == find_all(html_call.page.top, {"a"}) IN
      /\ link.fragment = ""
      /\ Lower(link.scheme) \notin UnfollowedSchemes
      /\ is_valid_url_func(html_call.f, link)
      /\ \E k \in 1..Len(a_tags) :
           /\ a_tags[k].href # <<>>
           /\ ~startswith(UrlText(a_tags[k].href[1]), <<"#">>)
           /\ link = urldefrag(urljoin(html_call.url, a_tags[k].href[1]))

\* C25: extract_text on the example page fetched from https://e.com/ (a main
\* element with <h1>H</h1> and the paragraph "Hi " followed by a link with
\* href /x and text x) returns Markdown that starts with "# H" and contains
\* "Hi [x](https://e.com/x)".
C25_ExampleConversion ==
  ( /\ html_call.op = "extract_text"
    /\ html_call.page = ExamplePage
    /\ html_call.url = RootUrl
    /\ html_call.fault = "none"
    /\ ~html_call.before.ignore_links
    /\ ~html_call.before.skip_internal_links )
  => /\ startswith(html_call.markdown, <<"#", " ", "H">>)
     /\ Occurrences(html_call.markdown,
                    <<"Hi", " ", "[", "x", "](">> \o UrlText(urljoin(RootUrl,
                       Url("", "", <<"/", "x">>, ""))) \o <<")">>) # {}

\* the number of columns of a row of a Markdown table
Columns(line) == Cardinality({i \in 1..Len(line) : line[i] = "|"}) - 1

\* the number of header cells of the first table of a page
HeaderCells(page) == Len(find_all(find_all(page.top, {"thead"}), {"th"}))

\* C26: in the Markdown of a table with header cells every row has as many
\* columns as the header row and its separator row: a data row with fewer
\* cells is padded and one with more cells is cut (two header cells and a
\* data row of three cells give a row of two columns).
C26_RowsMatchHeader ==
  ( /\ html_call.op = "extract_text"
    /\ html_call.page = HeadedTablePage
    /\ ~html_call.fell_back )
  => LET lines == split(html_call.markdown, "\n") IN
     \A i \in 1..Len(lines) :
       (lines[i] # <<>> /\ Head(lines[i]) = "|")
         => Columns(lines[i]) = HeaderCells(html_call.page)

\* C27: extract_text raises nothing and returns a string; when the structured
\* conversion raises, what it returns is the result of the fallback
\* conversion, which, unless that failed too, is an H1 title followed by the
\* strings of the page.
C27_NeverRaises ==
  html_call.op = "extract_text" =>
    /\ ~html_call.raised
    /\ html_call.markdown # <<>>
    /\ html_call.fell_back =>
         /\ html_call.markdown = _simple_html_to_markdown(html_call.page, html_call.fault)
         /\ html_call.fault # "both" =>
              /\ startswith(html_call.markdown,
                            <<"#", " ">> \o TitleOf(html_call.page) \o <<"\n", "\n">>)
              /\ LET strings == StrippedStrings(Decompose(html_call.page.top,
                                                           {"script", "style"})) IN
                 \A i \in 1..Len(strings) :
                   Occurrences(html_call.markdown, CollapseSpaces(strings[i])) # {}

\* a table body without a table head has made line 602 raise, and the
\* fallback conversion has been returned
C27_Witness ==
  /\ html_call.op = "extract_text"
  /\ html_call.page = BodyOnlyTablePage
  /\ html_call.fault = "none"
  /\ html_call.fell_back
  /\ ~html_call.raised
  /\ html_call.markdown = <<"#", " ", "T", "\n", "\n", "T", "\n", "1", "\n", "2",
                            "\n", "3", "\n", "4">>

\* C28: extract_text leaves every field of the processor's configuration as
\* it was before the call.
C28_ConfigReadOnly ==
  html_call.op = "extract_text" => html_processor.config = html_call.before

\* C31: when the rate limiter has been asked to wait in an iteration, the key
\* it was given is the host of current_url, the URL about to be fetched, also
\* for a sitemap-seeded URL of another host than the seed's.
C31_RateKeyIsUrlHost ==
  pc \in {"mark", "fetch"} =>
    /\ urlparse(current_url).netloc \in DOMAIN last_request_time
    /\ last_request_time[urlparse(current_url).netloc] = now

\* the text a child contributes to the flattened tree
Rendered(child) == strip(_build_markdown_from_tree(child.kids))

\* C32: in the text _build_markdown_from_tree produces, the texts of two
\* consecutive block-level children (p, div, section, article, main, heading)
\* are never on the same line: the first is followed by a blank-line
\* separator.
C32_BlocksOnSeparateLines ==
  html_call.op = "build_tree" =>
    LET nodes == html_call.nodes
        lines == split(html_call.markdown, "\n") IN
    \A i \in 1..(Len(nodes) - 1) :
      ( /\ nodes[i].tag \in BlockTags
        /\ nodes[i + 1].tag \in BlockTags
        /\ Rendered(nodes[i]) # <<>>
        /\ Rendered(nodes[i + 1]) # <<>> )
      => \A k \in 1..Len(lines) :
           \/ Occurrences(lines[k], Rendered(nodes[i])) = {}
           \/ Occurrences(lines[k], Rendered(nodes[i + 1])) = {}

\* C33: urls_to_visit holds no URL twice and urls_in_queue is exactly the set
\* of its elements, after construction (sitemap seeding included) and after
\* every dequeue and every enqueue.
C33_FrontierConsistent ==
  /\ NoDuplicates(urls_to_visit)
  /\ urls_in_queue = Range(urls_to_visit)

\* C33 witness: the sitemap listed the start URL again and another URL, the
\* other URL was seeded once, and the start URL has been dequeued
C33_Witness ==
  /\ cfg.start_url = "M"
  /\ appendLog = <<"M", "X">>
  /\ dequeueLog = <<"M">>
  /\ urls_to_visit = <<"X">>
  /\ urls_in_queue = {"X"}

\* C34: the URL a dequeue takes from the frontier is never in visited_urls:
\* the "already visited" branch of line 274 is never taken, and the iteration
\* goes on to the robots check.
C34_DequeuedNeverVisited ==
  [][dequeueLog' # dequeueLog =>
       /\ Head(urls_to_visit) \notin visited_urls
       /\ current_url' = Head(urls_to_visit)
       /\ current_url' \notin visited_urls'
       /\ pc' = "robots"]_vars

\* C34 witness: a URL is dequeued after a page that linked to a visited URL and
\* to a queued one
C34_Witness ==
  /\ pc = "robots"
  /\ Len(dequeueLog) >= 2
  /\ visited_urls # {}
  /\ \E u \in visited_urls :
       \E i \in 1..Len(site[u]) : site[u][i] \in visited_urls

\* C35: pages_processed + pages_failed never exceeds the number of visited
\* URLs: a URL raises at most one of the two counters, by at most one, also
\* when link extraction or a callback fails after the page was stored.
C35_CountersBoundedByVisited ==
  stats.pages_processed + stats.pages_failed <= Cardinality(visited_urls)

\* C36: when every call returns, crawl() eventually terminates, and it does so
\* because the frontier is empty or because the page cap is reached, also when
\* URLs that robots.txt refused are appended to the frontier again.
C36_CrawlTerminates ==
  <>(/\ pc = "done"
     /\ \/ cause = "exhausted" /\ urls_to_visit = <<>>
        \/ /\ cause = "cap"
           /\ urls_to_visit # <<>>
           /\ PageCapReached(cfg.max_pages, stats.pages_processed))

\* C36 witness: crawl() returned with an empty frontier after a URL that
\* robots.txt refused was appended a second time
C36_Witness ==
  /\ pc = "done"
  /\ cause = "exhausted"
  /\ \E i, j \in 1..Len(appendLog) :
       /\ i < j
       /\ appendLog[i] = appendLog[j]
       /\ appendLog[i] \notin visited_urls

\* the scope of a crawl: the seed's host, a path that begins with the seed's
\* path, and no denied extension
InScope(u) ==
  /\ urlparse(u).netloc = urlparse(cfg.start_url).netloc
  /\ IsPrefix(urlparse(cfg.start_url).path, urlparse(u).path)
  /\ \A ext \in {".jpg", ".jpeg", ".png", ".gif", ".pdf", ".zip", ".js", ".css"} :
       urlparse(u).path[Len(urlparse(u).path)] # ext

\* C37: every URL of the frontier and of visited_urls was appended as the
\* start URL, as a URL the sitemap resolution returned during construction, or
\* as a link of the page being processed that was in scope when extracted;
\* link discovery appends no URL outside the scope.
C37_CrawlScope ==
  /\ [](/\ Range(urls_to_visit) \cup visited_urls \subseteq Range(appendLog)
        /\ appendLog[1] = cfg.start_url)
  /\ [][/\ Len(appendLog') >= Len(appendLog)
        /\ SubSeq(appendLog', 1, Len(appendLog)) = appendLog
        /\ \A i \in (Len(appendLog) + 1)..Len(appendLog') :
             \/ pc = "init" /\ IsSitemapUrl(cfg.start_url)
             \/ /\ pc = "links"
                /\ appendLog'[i] \in Range(site[current_url])
                /\ InScope(appendLog'[i])]_vars

\* C37 witness: a page that links to another host, to an image and to pages
\* in scope was processed, and only the page in scope was appended
C37_Witness ==
  /\ pc = "sleep"
  /\ iter.enqueued
  /\ current_url = "A"
  /\ {"X", "P", "B"} \subseteq Range(site["A"])
  /\ appendLog = <<"A", "B">>

\* C38: in per-page mode two distinct fetched URLs are never saved under the
\* same path: url_to_filepath gives distinct URLs distinct paths, also when
\* they differ in the query string only or as /b and /b.md.
C38_DistinctPaths ==
  \A f, g \in storage : f.page # g.page => f.path # g.path

\* C39: while a thread sleeps inside wait_if_needed for one key, no call of
\* another thread returns, whatever its key and also when that key has no
\* recorded request: the other thread stays before the lock.
C39_SleepBlocksOtherKeys ==
  [][\A t, u \in Threads :
       (t # u /\ callers[t].pc = "sleep")
         => /\ callers[u].pc \in {"idle", "acquire"}
            /\ callers[u].pc = "acquire" => callers'[u].pc = "acquire"
            /\ callers'[u].calls = callers[u].calls
            /\ returns' = returns
            /\ last_request_time' = last_request_time]_vars

\* C39 witness: a thread has been sleeping for a second for one key while
\* another thread waits for the lock with a key that has no recorded request
C39_Witness ==
  \E t, u \in Threads :
    /\ t # u
    /\ callers[t].pc = "sleep"
    /\ now > callers[t].started
    /\ callers[u].pc = "acquire"
    /\ callers[u].key # callers[t].key
    /\ callers[u].key \notin DOMAIN last_request_time

\* the page URLs of the urlsets that a chain of at most depth sitemaps reaches
\* from url, url included
RECURSIVE PagesWithin(_, _)
PagesWithin(url, depth) ==
  IF depth <= 0 THEN {}
  ELSE IF sitemap_docs[url].kind = "urlset" THEN Range(sitemap_docs[url].locs)
  ELSE IF sitemap_docs[url].kind = "index"
  THEN UNION {PagesWithin(sitemap_docs[url].locs[i], depth - 1) :
                i \in 1..Len(sitemap_docs[url].locs)}
  ELSE {}

\* C40: when every sitemap answers with well-formed XML, fetch_urls(M,
\* max_depth = d) returns every page URL of a urlset that a chain of at most d
\* sitemaps reaches from M, whatever the order of the nested sitemaps and also
\* when a sitemap is reachable through a longer chain as well.
C40_SitemapComplete ==
  sitemap_result.pc = "done" =>
    PagesWithin("M", sitemap_stack[1].max_depth - 1) \subseteq sitemap_result.urls

====
